---- MODULE Spec2Model ----
(***************************************************************************)
(* jxscout-caido: chunked transfer of a captured (url, request, response)  *)
(* artifact from the frontend plugin (Chunk Sender) to the backend plugin  *)
(* (Session Reassembler, Garbage Collector, Ingestion Forwarder).          *)
(*                                                                         *)
(* A text is a sequence of blocks; a block stands for BlockChars           *)
(* characters (half a chunk), so the texts explored are those whose length *)
(* is a multiple of half CHUNK_SIZE.  The clock advances in ticks of       *)
(* half SESSION_TIMEOUT.                                                   *)
(***************************************************************************)
EXTENDS Integers, Sequences, FiniteSets, TLC

(***************************************************************************)
(* Bounds of the model.                                                    *)
(***************************************************************************)
MaxTime == 3        \* the clock Date.now() is explored for MaxTime ticks
MaxLen == 3         \* longest text of a sender artifact, in blocks
MaxTotal == 3       \* largest totalChunks an arbitrary caller passes
MaxBuf == 2         \* arbitrary callers stop appending to buffers this long, in blocks
MaxEnvCalls == 1    \* calls that arbitrary callers make in one behaviour
MaxUiCalls == 2     \* calls that the settings page and the URL fetcher make in one behaviour
MaxUrls == 2        \* longest list of URLs passed to fetchAndSendUrls
MaxHookCalls == 2   \* invocations of the intercept handler in one behaviour

(***************************************************************************)
(* Program constants.                                                      *)
(***************************************************************************)
CHUNK_SIZE == 500 * 1024
SESSION_TIMEOUT == 60000

\* the characters of one block of text, the milliseconds of one tick of the clock
BlockChars == CHUNK_SIZE \div 2
TickMs == SESSION_TIMEOUT \div 2

\* str.length
Length(str) == Len(str) * BlockChars

SessionIds == {"s1", "s2"}
Senders == {"snd"}
EnvCallers == {"env"}
UiCallers == {"ui"}
FetchCallers == {"fas"}
HookCallers == {"hook"}
Alphabet == {"a", "b"}
Urls == {"", "u1", "u2"}

VARIABLES
  chunkSessions,  \* backend: the session table, sessionId -> ChunkSession
  now,            \* the wall clock read by Date.now()
  calls,          \* invocations of backend API functions that exist: called, suspended at an await, or returned
  sender,         \* frontend: the state of each run of a sending function
  fwdCount,       \* observation: sendToJxscout invocations made so far for the current entry of each sessionId
  evicted,        \* observation: the sessionIds of which a sweep has removed an entry
  envCalls,       \* observation: the number of calls made by arbitrary callers
  settingsFile,   \* the content of settings.json in the plugin's directory
  globalSettings, \* backend: the cached settings, Settings | null
  uiCalls,        \* observation: the number of calls made by the settings page and the URL fetcher
  fetcher,        \* frontend: the state of the run of fetchAndSendUrls
  envResult       \* observation: the sessionId and the value returned of the last call of an
                  \* arbitrary caller that has returned

vars == <<chunkSessions, now, calls, sender, fwdCount, evicted, envCalls,
          settingsFile, globalSettings, uiCalls, fetcher, envResult>>

(***************************************************************************)
(* Optional values (T | null): <<>> is null, <<v>> is the value v.         *)
(***************************************************************************)
Null == <<>>
Some(v) == <<v>>

\* JavaScript truthiness of a (string | null) value, for URLs
TruthyUrl(o) == o # Null /\ o[1] # ""
\* JavaScript truthiness of a (string | null) value, for texts
TruthyText(o) == o # Null /\ o[1] # <<>>

(***************************************************************************)
(* Response<T>                                                             *)
(***************************************************************************)
Undefined == [undefined |-> TRUE]

ok(data) == [success |-> TRUE, data |-> data]

\* an error message: the fixed text and the interpolated numbers (-1: none)
Msg(text, a, b) == [text |-> text, expected |-> a, got |-> b]

error(message) == [success |-> FALSE, error |-> message]

NotFoundMsg == Msg("Session not found. Must start with chunk 0.", -1, -1)
ExpectedMsg(rc, idx) == Msg("Expected chunk ${session.receivedChunks}, got ${chunkIndex}", rc, idx)
SendFailedMsg == Msg("Failed to send request to jxscout: ${err}", -1, -1)
ThrownMsg == Msg("Failed to send to jxscout: ${err}", -1, -1)
NotAllMsg == Msg("Not all chunks were processed", -1, -1)
RpcErrorMsg == Msg("String(error)", -1, -1)
SaveFailedMsg == Msg("Failed to save settings: ${err}", -1, -1)
FetchFailedMsg == Msg("Failed to fetch URL: ${err}", -1, -1)
NoResponseMsg == Msg("No response received", -1, -1)

(***************************************************************************)
(* Settings and the settings file.                                         *)
(***************************************************************************)
DEFAULT_SETTINGS == [port |-> 3333, host |-> "localhost", filterInScope |-> TRUE, enabled |-> TRUE]

\* settings a user saves
UserSettings == [port |-> 4444, host |-> "127.0.0.1", filterInScope |-> FALSE, enabled |-> TRUE]

SettingsValues == {DEFAULT_SETTINGS, UserSettings}

\* settings with the automatic interception switched off
DisabledSettings == [port |-> 4444, host |-> "127.0.0.1", filterInScope |-> FALSE, enabled |-> FALSE]

HookSettings == SettingsValues \cup {DisabledSettings}

\* JSON.stringify(value, null, 2): the text that denotes the value
JSONstringify(value) == [kind |-> "json", denotes |-> value]

\* values that JSON.parse gives and that are no Settings object (line 72 returns them
\* unchecked): null; the other values that are not truthy, false, 0 and ""; a truthy
\* value that is no object, 42; an object with none of the properties; objects with
\* some of them
JsonNull == [json |-> "null"]
EmptyObject == [json |-> "{}"]
FalsyValues == {[json |-> "false"], [json |-> "0"], [json |-> "\"\""]}
NotSettings ==
  {JsonNull, EmptyObject, [json |-> "42"], [enabled |-> TRUE], [host |-> "127.0.0.1", port |-> 4444]}
    \cup FalsyValues

\* the file does not exist; the file holds text that is not JSON; the file has been
\* opened for writing and holds nothing yet
Absent == [kind |-> "absent"]
Garbage == [kind |-> "garbage"]
Truncated == [kind |-> "truncated"]

FileContents == {Absent, Garbage} \cup {JSONstringify(v) : v \in SettingsValues \cup NotSettings}

\* readFile followed by JSON.parse: Null when either of them throws
ReadAndParse(file) == IF file.kind = "json" THEN Some(file.denotes) ELSE Null

\* the read always reports the defaults
getSettingsResultIgnoresFile(file) == ok(DEFAULT_SETTINGS)

\* the value getSettings returns when readFile found `file` (lines 70-76)
getSettingsResult(file) ==
  IF ReadAndParse(file) # Null THEN ok(ReadAndParse(file)[1]) ELSE ok(DEFAULT_SETTINGS)

\* settings.host, settings.port, settings.enabled and settings.filterInScope of a value
\* that is not null: a property that is missing reads undefined, which the string
\* concatenation of line 230 turns into "undefined" and which is not truthy
Host(settings) == IF "host" \in DOMAIN settings THEN settings.host ELSE "undefined"
Port(settings) == IF "port" \in DOMAIN settings THEN settings.port ELSE -1
Enabled(settings) == "enabled" \in DOMAIN settings /\ settings.enabled
FilterInScope(settings) == "filterInScope" \in DOMAIN settings /\ settings.filterInScope

\* globalSettings after the assignment of `value` (lines 219, 273): null when the
\* value is null
Cached(value) == IF value = JsonNull THEN Null ELSE Some(value)

\* `!globalSettings` (lines 216, 271): nothing has been cached, or what has been
\* cached is not truthy
NotCached(cache) == cache = Null \/ cache[1] \in FalsyValues

\* the host and the port of the RequestSpec that sendToJxscout builds (lines 228-232)
Target(settings) == [host |-> Host(settings), port |-> Port(settings)]

(***************************************************************************)
(* The session table: a Map<string, ChunkSession>, i.e. a function whose   *)
(* domain is the set of keys present.                                      *)
(***************************************************************************)
\* a delete that leaves the entry in the Map
MapDeleteNoEffect(m, k) == m

MapDelete(m, k) == [x \in DOMAIN m \ {k} |-> m[x]]
\* one session object shared by every key
MapSetShared(m, k, v) == [x \in DOMAIN m \cup {k} |-> v]

MapSet(m, k, v) == [x \in DOMAIN m \cup {k} |-> IF x = k THEN v ELSE m[x]]

\* `>=` in the place of `>`: a session idle for exactly SESSION_TIMEOUT is removed
ExpiredAtBoundary(table, t) == {k \in DOMAIN table : t - table[k].timestamp >= SESSION_TIMEOUT}

\* a sweep whose comparison is off by one tick
ExpiredLate(table, t) == {k \in DOMAIN table : t - table[k].timestamp > SESSION_TIMEOUT + TickMs}

\* the sessions the sweep removes at time t
Expired(table, t) == {k \in DOMAIN table : t - table[k].timestamp > SESSION_TIMEOUT}

\* a sweep that removes nothing
cleanupKeepsAll(table, t) == table

cleanupExpiredSessions(table, t) == [k \in DOMAIN table \ Expired(table, t) |-> table[k]]

\* the ChunkSession created for an unknown sessionId (lines 152-159)
NewSession(totalChunks, requestUrl, t) ==
  [requestUrl |-> IF TruthyUrl(requestUrl) THEN requestUrl[1] ELSE "",
   requestRaw |-> <<>>,
   responseRaw |-> <<>>,
   receivedChunks |-> 0,
   totalChunks |-> totalChunks,
   timestamp |-> t]

\* the chunk is put in front of the buffer
AppendChunkPrepends(session, chunkIndex, requestUrl, requestRawChunk, responseRawChunk, t) ==
  [requestUrl |-> IF chunkIndex = 0 /\ TruthyUrl(requestUrl) THEN requestUrl[1] ELSE session.requestUrl,
   requestRaw |-> IF TruthyText(requestRawChunk) THEN requestRawChunk[1] \o session.requestRaw ELSE session.requestRaw,
   responseRaw |-> IF TruthyText(responseRawChunk) THEN responseRawChunk[1] \o session.responseRaw ELSE session.responseRaw,
   receivedChunks |-> session.receivedChunks + 1,
   totalChunks |-> session.totalChunks,
   timestamp |-> t]

\* `=` in the place of `+=`: the chunk replaces the buffer
AppendChunkOverwrites(session, chunkIndex, requestUrl, requestRawChunk, responseRawChunk, t) ==
  [requestUrl |-> IF chunkIndex = 0 /\ TruthyUrl(requestUrl) THEN requestUrl[1] ELSE session.requestUrl,
   requestRaw |-> IF TruthyText(requestRawChunk) THEN requestRawChunk[1] ELSE session.requestRaw,
   responseRaw |-> IF TruthyText(responseRawChunk) THEN responseRawChunk[1] ELSE session.responseRaw,
   receivedChunks |-> session.receivedChunks + 1,
   totalChunks |-> session.totalChunks,
   timestamp |-> t]

\* the URL of any chunk is assigned, not only that of the chunk with index 0
AppendChunkAnyUrl(session, chunkIndex, requestUrl, requestRawChunk, responseRawChunk, t) ==
  [requestUrl |-> IF TruthyUrl(requestUrl) THEN requestUrl[1] ELSE session.requestUrl,
   requestRaw |-> IF TruthyText(requestRawChunk) THEN session.requestRaw \o requestRawChunk[1] ELSE session.requestRaw,
   responseRaw |-> IF TruthyText(responseRawChunk) THEN session.responseRaw \o responseRawChunk[1] ELSE session.responseRaw,
   receivedChunks |-> session.receivedChunks + 1,
   totalChunks |-> session.totalChunks,
   timestamp |-> t]

\* "Append chunks" and the two assignments that follow (lines 168-180)
AppendChunk(session, chunkIndex, requestUrl, requestRawChunk, responseRawChunk, t) ==
  [requestUrl |-> IF chunkIndex = 0 /\ TruthyUrl(requestUrl) THEN requestUrl[1] ELSE session.requestUrl,
   requestRaw |-> IF TruthyText(requestRawChunk) THEN session.requestRaw \o requestRawChunk[1] ELSE session.requestRaw,
   responseRaw |-> IF TruthyText(responseRawChunk) THEN session.responseRaw \o responseRawChunk[1] ELSE session.responseRaw,
   receivedChunks |-> session.receivedChunks + 1,
   totalChunks |-> session.totalChunks,
   timestamp |-> t]

\* the arguments of a sendToJxscout invocation
Artifact(url, req, resp) == [requestUrl |-> url, request |-> req, response |-> resp]

\* the session is created before the chunk index is looked at
SessionNotFoundCreates(swept, sessionId, totalChunks, requestUrl, t) ==
  [table |-> MapSet(swept, sessionId, NewSession(totalChunks, requestUrl, t)),
   pc |-> "returned", fwd |-> Null, result |-> Some(error(NotFoundMsg))]

\* no session and chunkIndex !== 0: the early return of lines 149-151
SessionNotFound(swept, sessionId, totalChunks, requestUrl, t) ==
  [table |-> swept, pc |-> "returned", fwd |-> Null, result |-> Some(error(NotFoundMsg))]

\* the timestamp is refreshed before the chunk index is validated
OutOfOrderTouches(table, sessionId, chunkIndex, t) ==
  [table |-> [table EXCEPT ![sessionId].timestamp = t], pc |-> "returned", fwd |-> Null,
   result |-> Some(error(ExpectedMsg(table[sessionId].receivedChunks, chunkIndex)))]

\* chunkIndex !== session.receivedChunks: the early return of lines 164-166
OutOfOrder(table, sessionId, chunkIndex, t) ==
  [table |-> table, pc |-> "returned", fwd |-> Null,
   result |-> Some(error(ExpectedMsg(table[sessionId].receivedChunks, chunkIndex)))]

(***************************************************************************)
(* sendToJxscoutChunk from its first statement to its first await or its   *)
(* return, on the table `table` at time t.  The result is the table it     *)
(* leaves, where it stands (pc "forward": suspended in                     *)
(* `await sendToJxscout(...)`, pc "returned"), the arguments of the        *)
(* sendToJxscout invocation (fwd) and the value returned (result).         *)
(***************************************************************************)
ChunkSync(table, t, sessionId, chunkIndex, totalChunks, requestUrl, requestRawChunk, responseRawChunk) ==
  LET swept == cleanupExpiredSessions(table, t)
      found == sessionId \in DOMAIN swept
  IN IF ~found /\ chunkIndex # 0
     THEN SessionNotFound(swept, sessionId, totalChunks, requestUrl, t)
     ELSE LET session == IF found THEN swept[sessionId] ELSE NewSession(totalChunks, requestUrl, t)
              created == MapSet(swept, sessionId, session)
          IN IF chunkIndex # session.receivedChunks
             THEN OutOfOrder(created, sessionId, chunkIndex, t)
             ELSE LET appended == AppendChunk(session, chunkIndex, requestUrl, requestRawChunk, responseRawChunk, t)
                      updated == MapSet(swept, sessionId, appended)
                  IN IF appended.receivedChunks >= appended.totalChunks
                     THEN [table |-> updated, pc |-> "forward",
                           fwd |-> Some(Artifact(appended.requestUrl, appended.requestRaw, appended.responseRaw)),
                           result |-> Null]
                     ELSE [table |-> updated, pc |-> "returned", fwd |-> Null,
                           result |-> Some(ok([complete |-> FALSE]))]

(***************************************************************************)
(* Invocations of the backend API.                                         *)
(***************************************************************************)
ChunkCall(caller, sessionId, chunkIndex, totalChunks, requestUrl, requestRawChunk, responseRawChunk) ==
  [caller |-> caller, op |-> "sendToJxscoutChunk", pc |-> "called",
   sessionId |-> sessionId, chunkIndex |-> chunkIndex, totalChunks |-> totalChunks,
   requestUrl |-> requestUrl, requestRawChunk |-> requestRawChunk, responseRawChunk |-> responseRawChunk,
   fwd |-> Null, fwdResult |-> Null, result |-> Null, start |-> -1,
   arg |-> Null, io |-> Null, inner |-> "", target |-> Null, seq |-> 0]

DirectCall(caller, requestUrl, requestRaw, responseRaw) ==
  [caller |-> caller, op |-> "sendToJxscout", pc |-> "called",
   sessionId |-> "", chunkIndex |-> -1, totalChunks |-> -1,
   requestUrl |-> Some(requestUrl), requestRawChunk |-> Some(requestRaw), responseRawChunk |-> Some(responseRaw),
   fwd |-> Null, fwdResult |-> Null, result |-> Null, start |-> -1,
   arg |-> Null, io |-> Null, inner |-> "", target |-> Null, seq |-> 0]

\* the calls a caller has outstanding: issued and not yet consumed
Outstanding(caller) == {c \in calls : c.caller = caller}

\* a returned call stays until its caller resumes; nobody awaits the calls of EnvCallers
Keep(c) == IF c.pc = "returned" /\ c.caller \in EnvCallers THEN {} ELSE {c}

\* what was last returned to an arbitrary caller, once the call c stands as it does
Answered(c) ==
  IF c.pc = "returned" /\ c.caller \in EnvCallers
  THEN Some([sessionId |-> c.sessionId, result |-> c.result[1]])
  ELSE envResult

\* a call whose function has started: the arguments have been consumed,
\* what is left of them is the sessionId and the chunkIndex
Started(c) ==
  [c EXCEPT !.start = now, !.totalChunks = -1,
            !.requestUrl = Null, !.requestRawChunk = Null, !.responseRawChunk = Null]

\* sendToJxscout is entered with `artifact` on behalf of the call c: it runs up to
\* `await getSettings` when nothing is cached (lines 216-217), and up to
\* `await sdk.requests.send` with the cached host and port otherwise
EnterSendToJxscout(c, artifact) ==
  IF NotCached(globalSettings)
  THEN [c EXCEPT !.pc = "forward", !.fwd = Some(artifact), !.inner = "load"]
  ELSE [c EXCEPT !.pc = "forward", !.fwd = Some(artifact), !.inner = "send",
                 !.target = Some(Target(globalSettings[1]))]

\* sendToJxscoutChunk runs for the call c (c is not in `others`)
RunChunk(c, others) ==
  LET r == ChunkSync(chunkSessions, now, c.sessionId, c.chunkIndex, c.totalChunks,
                     c.requestUrl, c.requestRawChunk, c.responseRawChunk)
      c2 == IF r.pc = "forward" THEN EnterSendToJxscout(Started(c), r.fwd[1])
            ELSE [Started(c) EXCEPT !.pc = r.pc, !.fwd = r.fwd, !.result = r.result]
      isNew == c.sessionId \notin DOMAIN cleanupExpiredSessions(chunkSessions, now)
  IN /\ chunkSessions' = r.table
     /\ calls' = others \cup Keep(c2)
     /\ envResult' = Answered(c2)
     /\ evicted' = evicted \cup Expired(chunkSessions, now)
     /\ fwdCount' = [k \in SessionIds |->
                       IF k \notin DOMAIN r.table THEN 0
                       ELSE IF k = c.sessionId
                            THEN (IF isNew THEN 0 ELSE fwdCount[k]) + (IF r.pc = "forward" THEN 1 ELSE 0)
                            ELSE fwdCount[k]]

\* the number of request pieces alone
MaxIsFirst(a, b) == a

Max(a, b) == IF a >= b THEN a ELSE b
Min(a, b) == IF a <= b THEN a ELSE b

\* String.prototype.substring(from, to) for 0 <= from <= to, both on a block boundary:
\* `to` is clipped at the length
Substring(str, from, to) ==
  SubSeq(str, from \div BlockChars + 1, Min(to, Length(str)) \div BlockChars)

\* the loop of chunkString, from position i on
RECURSIVE ChunkFrom(_, _, _)
ChunkFrom(str, i, chunkSize) ==
  IF i < Length(str)
  THEN <<Substring(str, i, i + chunkSize)>> \o ChunkFrom(str, i + chunkSize, chunkSize)
  ELSE <<>>

chunkString(str, chunkSize) == ChunkFrom(str, 0, chunkSize)

\* an empty string in the place of null
PieceAtNeverNull(chunks, i) == IF i < Len(chunks) THEN Some(chunks[i + 1]) ELSE Some(<<>>)

\* i < chunks.length ? chunks[i] : null
PieceAt(chunks, i) == IF i < Len(chunks) THEN Some(chunks[i + 1]) ELSE Null

(***************************************************************************)
(* The Chunk Sender: sendToJxscoutWithChunking (kind "helper") and the run *)
(* function of the command jxscout:send-response (kind "command").         *)
(***************************************************************************)
Outcome(kind, message) == [kind |-> kind, error |-> message]
NoMsg == Msg("", -1, -1)

\* the chunk call with index i of the sender state st
SenderChunkCall(s, st, i) ==
  ChunkCall(s, st.sessionId, i, st.totalChunks,
            IF i = 0 THEN Some(st.requestUrl) ELSE Null,
            PieceAt(chunkString(st.requestRaw, CHUNK_SIZE), i),
            PieceAt(chunkString(st.responseRaw, CHUNK_SIZE), i))

\* the loop issues the call i and, without awaiting it, the call i + 1
SenderLoopPipelined(s, st, i, rest) ==
  IF i < st.totalChunks
  THEN LET both == i + 1 < st.totalChunks
       IN /\ sender' = [sender EXCEPT ![s] =
                          [st EXCEPT !.pc = "await", !.i = i,
                                     !.issued = IF both THEN Append(Append(@, i), i + 1) ELSE Append(@, i)]]
          /\ calls' = rest \cup {SenderChunkCall(s, st, i)}
                           \cup (IF both THEN {SenderChunkCall(s, st, i + 1)} ELSE {})
  ELSE /\ sender' = [sender EXCEPT ![s] =
                       [st EXCEPT !.pc = "done", !.i = i,
                                  !.outcome = IF st.kind = "helper"
                                              THEN Some(Outcome("failure", NotAllMsg))
                                              ELSE Null]]
       /\ calls' = rest

\* the for loop at its test with loop variable i: the next call is issued, or the loop is left
SenderLoop(s, st, i, rest) ==
  IF i < st.totalChunks
  THEN /\ sender' = [sender EXCEPT ![s] = [st EXCEPT !.pc = "await", !.i = i, !.issued = Append(@, i)]]
       /\ calls' = rest \cup {SenderChunkCall(s, st, i)}
  ELSE /\ sender' = [sender EXCEPT ![s] =
                       [st EXCEPT !.pc = "done", !.i = i,
                                  !.outcome = IF st.kind = "helper"
                                              THEN Some(Outcome("failure", NotAllMsg))
                                              ELSE Null]]
       /\ calls' = rest

\* the send function ends with the outcome o
SenderDone(s, st, o, rest) ==
  /\ sender' = [sender EXCEPT ![s] = [st EXCEPT !.pc = "done", !.outcome = Some(o)]]
  /\ calls' = rest

\* a failed chunk call is not looked at: the loop goes on
AfterChunkResultIgnoresFailure(s, st, r, rest) ==
  IF r.success /\ r.data.complete THEN SenderDone(s, st, Outcome("success", NoMsg), rest)
  ELSE SenderLoop(s, st, st.i + 1, rest)

\* `complete` is not looked at: the loop goes on after the completing call
AfterChunkResultIgnoresComplete(s, st, r, rest) ==
  IF ~r.success THEN SenderDone(s, st, Outcome("failure", r.error), rest)
  ELSE SenderLoop(s, st, st.i + 1, rest)

\* the body of the loop after `await sdk.backend.sendToJxscoutChunk(...)` gave the result r
AfterChunkResult(s, st, r, rest) ==
  IF ~r.success THEN SenderDone(s, st, Outcome("failure", r.error), rest)
  ELSE IF r.data.complete THEN SenderDone(s, st, Outcome("success", NoMsg), rest)
  ELSE SenderLoop(s, st, st.i + 1, rest)

\* the direct branch after `await sdk.backend.sendToJxscout(...)` gave the result r
AfterDirectResult(s, st, r, rest) ==
  IF r.success THEN SenderDone(s, st, Outcome("success", NoMsg), rest)
  ELSE SenderDone(s, st, Outcome("failure", r.error), rest)

\* totalSize >= CHUNK_SIZE: the boundary value is chunked
NeedsChunkingAtBoundary(totalSize) == totalSize >= CHUNK_SIZE

\* the test that selects the chunked transfer
NeedsChunking(totalSize) == totalSize > CHUNK_SIZE

\* the send function is called with the artifact of st: everything up to its first await
StartSend(s, st, rest) ==
  LET totalSize == Length(st.requestRaw) + Length(st.responseRaw)
  IN IF NeedsChunking(totalSize)
     THEN \E sessionId \in SessionIds :
            LET totalChunks == Max(Len(chunkString(st.requestRaw, CHUNK_SIZE)),
                                   Len(chunkString(st.responseRaw, CHUNK_SIZE)))
            IN SenderLoop(s, [st EXCEPT !.sessionId = sessionId, !.totalChunks = totalChunks], 0, rest)
     ELSE /\ sender' = [sender EXCEPT ![s] = [st EXCEPT !.pc = "await", !.direct = @ + 1]]
          /\ calls' = rest \cup {DirectCall(s, st.requestUrl, st.requestRaw, st.responseRaw)}

\* the function is called: everything up to its first await
SenderStart(s) ==
  /\ sender[s].pc = "idle"
  /\ StartSend(s, sender[s], calls)
  /\ UNCHANGED <<chunkSessions, now, fwdCount, evicted, envCalls, settingsFile, globalSettings, uiCalls, fetcher, envResult>>

\* an awaited call has returned: everything up to the next await or the end
SenderResume(s) ==
  \E c \in calls :
    /\ c.caller = s
    /\ c.pc = "returned"
    /\ sender[s].pc = "await"
    /\ IF c.op = "sendToJxscoutChunk"
       THEN AfterChunkResult(s, sender[s], c.result[1], calls \ {c})
       ELSE AfterDirectResult(s, sender[s], c.result[1], calls \ {c})
    /\ UNCHANGED <<chunkSessions, now, fwdCount, evicted, envCalls, settingsFile, globalSettings, uiCalls, fetcher, envResult>>

\* an awaited call has been rejected: the catch clause that encloses the await
SenderCatch(s) ==
  \E c \in calls :
    LET st == sender[s]
        caught == c.op = "sendToJxscoutChunk" \/ st.kind = "command"
    IN /\ c.caller = s
       /\ c.pc = "thrown"
       /\ st.pc = "await"
       /\ sender' = [sender EXCEPT ![s] =
                       [st EXCEPT !.pc = "done",
                                  !.outcome = Some(Outcome(IF caught THEN "failure" ELSE "thrown", RpcErrorMsg))]]
       /\ calls' = calls \ {c}
       /\ UNCHANGED <<chunkSessions, now, fwdCount, evicted, envCalls, settingsFile, globalSettings, uiCalls, fetcher, envResult>>

(***************************************************************************)
(* The backend.                                                            *)
(***************************************************************************)
\* a chunk call issued by a sender reaches the backend: sendToJxscoutChunk runs
BackendChunk(c) ==
  /\ c \in calls
  /\ c.op = "sendToJxscoutChunk"
  /\ c.pc = "called"
  /\ RunChunk(c, calls \ {c})
  /\ UNCHANGED <<now, sender, envCalls, settingsFile, globalSettings, uiCalls, fetcher>>

\* the values an arbitrary caller of the API passes
EnvUrls == {Null, Some("u2")}
EnvTexts == {Some(<<"a">>)}
EnvResponseTexts == {Null}
EnvArgs ==
  [sessionId : SessionIds, chunkIndex : 0..MaxTotal - 1, totalChunks : 0..MaxTotal,
   requestUrl : EnvUrls, requestRawChunk : EnvTexts, responseRawChunk : EnvResponseTexts]
TextLen(o) == IF o = Null THEN 0 ELSE Len(o[1])

\* any other client of the API calls sendToJxscoutChunk with arguments of its choice
EnvChunk(e, sessionId, chunkIndex, totalChunks, requestUrl, requestRawChunk, responseRawChunk) ==
  /\ Outstanding(e) = {}
  /\ envCalls < MaxEnvCalls
  /\ envCalls' = envCalls + 1
  /\ sessionId \in DOMAIN chunkSessions =>
        /\ Len(chunkSessions[sessionId].requestRaw) + TextLen(requestRawChunk) <= MaxBuf
        /\ Len(chunkSessions[sessionId].responseRaw) + TextLen(responseRawChunk) <= MaxBuf
  /\ RunChunk(ChunkCall(e, sessionId, chunkIndex, totalChunks, requestUrl, requestRawChunk, responseRawChunk),
              calls)
  /\ UNCHANGED <<now, sender, settingsFile, globalSettings, uiCalls, fetcher>>

\* a direct call reaches the backend: sendToJxscout runs up to `await sdk.requests.send`
BackendDirect(c) ==
  /\ c \in calls
  /\ c.op = "sendToJxscout"
  /\ c.pc = "called"
  /\ LET c2 == EnterSendToJxscout(Started(c),
                                   Artifact(c.requestUrl[1], c.requestRawChunk[1], c.responseRawChunk[1]))
     IN /\ calls' = (calls \ {c}) \cup {c2}
  /\ UNCHANGED <<chunkSessions, now, sender, fwdCount, evicted, envCalls, settingsFile, globalSettings, uiCalls, fetcher, envResult>>

\* what sendToJxscout does after it was invoked: it returns ok, returns an error, or throws
ForwardOutcomes == {"ok", "fail", "throw"}

\* the Response with which sendToJxscout resolves (lines 243-251); Null: it throws
sendToJxscoutResponse(outcome) ==
  IF outcome = "ok" THEN Some(ok(Undefined))
  ELSE IF outcome = "fail" THEN Some(error(SendFailedMsg))
  ELSE Null

\* complete is reported whatever the forward answered
ChunkResultAlwaysComplete(outcome) ==
  IF sendToJxscoutResponse(outcome) = Null THEN error(ThrownMsg)
  ELSE ok([complete |-> TRUE])

\* the value sendToJxscoutChunk returns after `await sendToJxscout` (lines 193-204)
ChunkResult(outcome) ==
  IF sendToJxscoutResponse(outcome) = Null THEN error(ThrownMsg)
  ELSE LET result == sendToJxscoutResponse(outcome)[1]
       IN IF result.success THEN ok([complete |-> TRUE]) ELSE error(result.error)

\* ForwardEnd without the delete of the catch clause
ForwardEndNoDeleteInCatch(c, outcome) ==
  /\ c \in calls
  /\ c.pc = "forward"
  /\ c.inner = "send"
  /\ IF c.op = "sendToJxscoutChunk"
     THEN LET c2 == [c EXCEPT !.pc = "returned", !.result = Some(ChunkResult(outcome))]
          IN /\ chunkSessions' = IF outcome = "throw" THEN chunkSessions
                                 ELSE MapDelete(chunkSessions, c.sessionId)
             /\ fwdCount' = [fwdCount EXCEPT ![c.sessionId] = 0]
             /\ calls' = (calls \ {c}) \cup Keep(c2)
             /\ envResult' = Answered(c2)
     ELSE LET c2 == IF outcome = "ok" THEN [c EXCEPT !.pc = "returned", !.result = Some(ok(Undefined))]
                    ELSE IF outcome = "fail" THEN [c EXCEPT !.pc = "returned", !.result = Some(error(SendFailedMsg))]
                    ELSE [c EXCEPT !.pc = "thrown"]
          IN /\ calls' = (calls \ {c}) \cup Keep(c2)
             /\ envResult' = Answered(c2)
             /\ UNCHANGED <<chunkSessions, fwdCount>>
  /\ UNCHANGED <<now, sender, evicted, envCalls, settingsFile, globalSettings, uiCalls, fetcher>>

\* the session is deleted only when the forward succeeded
ForwardEndDeletesOnSuccess(c, outcome) ==
  /\ c \in calls
  /\ c.pc = "forward"
  /\ c.inner = "send"
  /\ IF c.op = "sendToJxscoutChunk"
     THEN LET c2 == [c EXCEPT !.pc = "returned", !.fwdResult = sendToJxscoutResponse(outcome),
                              !.result = Some(ChunkResult(outcome))]
          IN /\ chunkSessions' = IF outcome = "ok" THEN MapDelete(chunkSessions, c.sessionId) ELSE chunkSessions
             /\ fwdCount' = [fwdCount EXCEPT ![c.sessionId] = 0]
             /\ calls' = (calls \ {c}) \cup Keep(c2)
             /\ envResult' = Answered(c2)
     ELSE LET c2 == IF sendToJxscoutResponse(outcome) = Null THEN [c EXCEPT !.pc = "thrown"]
                    ELSE [c EXCEPT !.pc = "returned", !.result = sendToJxscoutResponse(outcome)]
          IN /\ calls' = (calls \ {c}) \cup Keep(c2)
             /\ envResult' = Answered(c2)
             /\ UNCHANGED <<chunkSessions, fwdCount>>
  /\ UNCHANGED <<now, sender, evicted, envCalls, settingsFile, globalSettings, uiCalls, fetcher>>

\* the sendToJxscout invocation of the call c ends with `outcome`: a suspended
\* sendToJxscoutChunk resumes, deletes the session and returns (lines 193-204); a
\* direct call returns what sendToJxscout returned, or is rejected
EndForward(c, outcome) ==
  IF c.op = "sendToJxscoutChunk"
  THEN LET c2 == [c EXCEPT !.pc = "returned", !.fwdResult = sendToJxscoutResponse(outcome),
                           !.result = Some(ChunkResult(outcome))]
       IN /\ chunkSessions' = MapDelete(chunkSessions, c.sessionId)
          /\ fwdCount' = [fwdCount EXCEPT ![c.sessionId] = 0]
          /\ calls' = (calls \ {c}) \cup Keep(c2)
          /\ envResult' = Answered(c2)
  ELSE LET c2 == IF sendToJxscoutResponse(outcome) = Null THEN [c EXCEPT !.pc = "thrown"]
                 ELSE [c EXCEPT !.pc = "returned", !.result = sendToJxscoutResponse(outcome)]
       IN /\ calls' = (calls \ {c}) \cup Keep(c2)
          /\ envResult' = Answered(c2)
          /\ UNCHANGED <<chunkSessions, fwdCount>>

\* the request that sendToJxscout sent for the call c ends, or something in
\* sendToJxscout throws
ForwardEnd(c, outcome) ==
  /\ c \in calls
  /\ c.pc = "forward"
  /\ c.inner = "send"
  /\ EndForward(c, outcome)
  /\ UNCHANGED <<now, sender, evicted, envCalls, settingsFile, globalSettings, uiCalls, fetcher>>

\* the call of a sender never reaches the backend: the RPC layer rejects it
RpcFail(c) ==
  /\ c \in calls
  /\ c.pc = "called"
  /\ c.caller \notin EnvCallers
  /\ calls' = (calls \ {c}) \cup {[c EXCEPT !.pc = "thrown"]}
  /\ UNCHANGED <<chunkSessions, now, sender, fwdCount, evicted, envCalls, settingsFile, globalSettings, uiCalls, fetcher, envResult>>

(***************************************************************************)
(* The settings functions, fetchUrl and direct sends, called by the        *)
(* settings page and the URL fetcher of the frontend.                      *)
(***************************************************************************)
UiCall(caller, op, arg) ==
  [ChunkCall(caller, "", -1, -1, Null, Null, Null) EXCEPT !.op = op, !.pc = "await", !.arg = arg, !.start = now]

\* a caller of UiCallers may call: it awaits nothing and has calls left
UiReady(u) == Outstanding(u) = {} /\ uiCalls < MaxUiCalls

\* getSettings is called: it runs up to `await readFile`
GetSettingsCall(u) ==
  /\ UiReady(u)
  /\ calls' = calls \cup {UiCall(u, "getSettings", Null)}
  /\ uiCalls' = uiCalls + 1
  /\ UNCHANGED <<chunkSessions, now, sender, fwdCount, evicted, envCalls, settingsFile, globalSettings, fetcher, envResult>>

\* the read of settings.json that c awaits takes place: in getSettings called through
\* the API, or in getSettings called by sendToJxscout or by the intercept handler
\* because nothing is cached
ReadFile(c) ==
  /\ c \in calls
  /\ \/ c.op = "getSettings" /\ c.pc = "await"
     \/ c.pc = "forward" /\ c.inner = "load"
     \/ c.op = "onInterceptResponse" /\ c.pc = "await" /\ c.inner = "load"
  /\ c.io = Null
  /\ calls' = (calls \ {c}) \cup {[c EXCEPT !.io = Some(settingsFile)]}
  /\ UNCHANGED <<chunkSessions, now, sender, fwdCount, evicted, envCalls, settingsFile, globalSettings, uiCalls, fetcher, envResult>>

\* getSettings resumes after the read and returns
GetSettingsReturn(c) ==
  /\ c \in calls
  /\ c.op = "getSettings" /\ c.pc = "await" /\ c.io # Null
  /\ calls' = (calls \ {c}) \cup {[c EXCEPT !.pc = "returned", !.result = Some(getSettingsResult(c.io[1]))]}
  /\ UNCHANGED <<chunkSessions, now, sender, fwdCount, evicted, envCalls, settingsFile, globalSettings, uiCalls, fetcher, envResult>>

\* sendToJxscout resumes after `await getSettings`: it caches what was read and runs
\* up to `await sdk.requests.send` (lines 218-244); when what was read is null,
\* `settings.host` throws (line 230) and no request is sent
SettingsLoaded(c) ==
  /\ c \in calls
  /\ c.pc = "forward" /\ c.inner = "load" /\ c.io # Null
  /\ LET settingsResponse == getSettingsResult(c.io[1])
         loaded == IF settingsResponse.success THEN settingsResponse.data ELSE DEFAULT_SETTINGS
     IN /\ globalSettings' = Cached(loaded)
        /\ IF Cached(loaded) = Null
           THEN EndForward(c, "throw")
           ELSE /\ calls' = (calls \ {c}) \cup
                              {[c EXCEPT !.inner = "send", !.io = Null, !.target = Some(Target(loaded))]}
                /\ UNCHANGED <<chunkSessions, fwdCount, envResult>>
  /\ UNCHANGED <<now, sender, evicted, envCalls, settingsFile, uiCalls, fetcher>>

\* saveSettings is called: it runs up to `await writeFile`
SaveSettingsCall(u, settings) ==
  /\ UiReady(u)
  /\ calls' = calls \cup {UiCall(u, "saveSettings", Some(settings))}
  /\ uiCalls' = uiCalls + 1
  /\ UNCHANGED <<chunkSessions, now, sender, fwdCount, evicted, envCalls, settingsFile, globalSettings, fetcher, envResult>>

\* writeFile opens the file, which truncates it, or fails to open it and leaves it
OpenFile(c, opened) ==
  /\ c \in calls
  /\ c.op = "saveSettings" /\ c.pc = "await" /\ c.io = Null /\ c.inner = ""
  /\ settingsFile' = IF opened THEN Truncated ELSE settingsFile
  /\ calls' = (calls \ {c}) \cup {IF opened THEN [c EXCEPT !.inner = "write"] ELSE [c EXCEPT !.io = Some(FALSE)]}
  /\ UNCHANGED <<chunkSessions, now, sender, fwdCount, evicted, envCalls, globalSettings, uiCalls, fetcher, envResult>>

\* writeFile writes the text into the file it opened, or fails and leaves it as it is
WriteFile(c, written) ==
  /\ c \in calls
  /\ c.op = "saveSettings" /\ c.pc = "await" /\ c.io = Null /\ c.inner = "write"
  /\ settingsFile' = IF written THEN JSONstringify(c.arg[1]) ELSE settingsFile
  /\ calls' = (calls \ {c}) \cup {[c EXCEPT !.io = Some(written), !.inner = ""]}
  /\ UNCHANGED <<chunkSessions, now, sender, fwdCount, evicted, envCalls, globalSettings, uiCalls, fetcher, envResult>>

\* saveSettings resumes after the write and returns (lines 53-61)
SaveSettingsReturn(c) ==
  /\ c \in calls
  /\ c.op = "saveSettings" /\ c.pc = "await" /\ c.io # Null
  /\ IF c.io[1]
     THEN /\ globalSettings' = c.arg
          /\ calls' = (calls \ {c}) \cup {[c EXCEPT !.pc = "returned", !.result = Some(ok(c.arg[1]))]}
     ELSE /\ globalSettings' = globalSettings
          /\ calls' = (calls \ {c}) \cup {[c EXCEPT !.pc = "returned", !.result = Some(error(SaveFailedMsg))]}
  /\ UNCHANGED <<chunkSessions, now, sender, fwdCount, evicted, envCalls, settingsFile, uiCalls, fetcher, envResult>>

\* the URLs passed to fetchUrl: one that `new URL` accepts, one that it rejects
FetchUrls == {"u1", ""}

\* the raw request that fetchUrl builds for the url (line 92): one block of text,
\* which holds the path and the host of the url
RawGet(url) == <<url>>

\* fetchUrl is called: `new URL(url)` throws into the catch clause, or the function
\* runs up to `await sdk.requests.send`
FetchUrlCall(u, url) ==
  /\ UiReady(u)
  /\ calls' = calls \cup
       {IF url = ""
        THEN [UiCall(u, "fetchUrl", Some(url)) EXCEPT !.pc = "returned", !.result = Some(error(FetchFailedMsg))]
        ELSE UiCall(u, "fetchUrl", Some(url))}
  /\ uiCalls' = uiCalls + 1
  /\ UNCHANGED <<chunkSessions, now, sender, fwdCount, evicted, envCalls, settingsFile, globalSettings, fetcher, envResult>>

FetchOutcomes == {"response", "noResponse", "throw"}

\* the raw response that the server of the url gives: "u2" is a large resource
ResponseBody(url) == IF url = "u2" THEN <<"b", "b", "b">> ELSE <<"b">>

\* the value fetchUrl returns after `await sdk.requests.send` (lines 111-120)
fetchUrlResult(url, outcome) ==
  IF outcome = "response" THEN ok([requestRaw |-> RawGet(url), responseRaw |-> ResponseBody(url)])
  ELSE IF outcome = "noResponse" THEN error(NoResponseMsg)
  ELSE error(FetchFailedMsg)

\* the request sent by fetchUrl ends
FetchEnd(c, outcome) ==
  /\ c \in calls
  /\ c.op = "fetchUrl" /\ c.pc = "await"
  /\ calls' = (calls \ {c}) \cup {[c EXCEPT !.pc = "returned", !.result = Some(fetchUrlResult(c.arg[1], outcome))]}
  /\ UNCHANGED <<chunkSessions, now, sender, fwdCount, evicted, envCalls, settingsFile, globalSettings, uiCalls, fetcher, envResult>>

\* sendToJxscout is called directly with an artifact below the chunk threshold
DirectSendCall(u) ==
  /\ UiReady(u)
  /\ calls' = calls \cup
       {EnterSendToJxscout([DirectCall(u, "u2", <<"a">>, <<>>) EXCEPT
                              !.start = now, !.requestUrl = Null, !.requestRawChunk = Null,
                              !.responseRawChunk = Null],
                           Artifact("u2", <<"a">>, <<>>))}
  /\ uiCalls' = uiCalls + 1
  /\ UNCHANGED <<chunkSessions, now, sender, fwdCount, evicted, envCalls, settingsFile, globalSettings, fetcher, envResult>>

\* the caller takes the result of its call
UiResume(u) ==
  \E c \in calls :
    /\ c.caller = u
    /\ c.pc \in {"returned", "thrown"}
    /\ calls' = calls \ {c}
    /\ UNCHANGED <<chunkSessions, now, sender, fwdCount, evicted, envCalls, settingsFile, globalSettings, uiCalls, fetcher, envResult>>

\* a timer that runs the sweep
TickSweeps ==
  /\ now < MaxTime * TickMs
  /\ now' = now + TickMs
  /\ chunkSessions' = cleanupExpiredSessions(chunkSessions, now')
  /\ UNCHANGED <<calls, sender, fwdCount, evicted, envCalls, settingsFile, globalSettings, uiCalls, fetcher, envResult>>

\* time passes
Tick ==
  /\ now < MaxTime * TickMs
  /\ now' = now + TickMs
  /\ UNCHANGED <<chunkSessions, calls, sender, fwdCount, evicted, envCalls, settingsFile, globalSettings, uiCalls, fetcher, envResult>>

(***************************************************************************)
(* Initial states and specifications.                                      *)
(***************************************************************************)
\* every text of at most n blocks
Texts(n) == UNION {[1..k -> Alphabet] : k \in 0..n}

\* one text of each length: "abab...", "bbab..."
RequestText(k) == [i \in 1..k |-> IF i % 2 = 1 THEN "a" ELSE "b"]
ResponseText(k) == [i \in 1..k |-> IF i % 3 = 0 THEN "a" ELSE "b"]

SenderInit(kind, requestUrl, requestRaw, responseRaw) ==
  [kind |-> kind, requestUrl |-> requestUrl, requestRaw |-> requestRaw, responseRaw |-> responseRaw,
   pc |-> "idle", sessionId |-> "", totalChunks |-> 0, i |-> 0,
   issued |-> <<>>, direct |-> 0, outcome |-> Null]

SenderKinds == {"helper", "command"}

(***************************************************************************)
(* The handler registered with sdk.events.onInterceptResponse.             *)
(***************************************************************************)
\* the request and the response that pass through the proxy
InterceptedPair == Artifact("u2", <<"a">>, <<"b">>)

\* an invocation of the handler for a request that is in scope or not; seq numbers the
\* invocations
HandlerCall(h, inScope) ==
  [DirectCall(h, InterceptedPair.requestUrl, InterceptedPair.request, InterceptedPair.response) EXCEPT
     !.op = "onInterceptResponse", !.arg = Some(inScope)]

\* the scope of the request is not looked at
AfterSettingsIgnoresScope(c, settings) ==
  IF ~Enabled(settings) THEN [c EXCEPT !.pc = "returned", !.inner = ""]
  ELSE [c EXCEPT !.pc = "forward", !.inner = "send",
                 !.fwd = Some(Artifact(c.requestUrl[1], c.requestRawChunk[1], c.responseRawChunk[1])),
                 !.target = Some(Target(settings))]

\* the handler from `const settings = globalSettings` on, up to its return or up to
\* `await sdk.requests.send` inside sendToJxscout (lines 282-299, 228-244)
AfterSettings(c, settings) ==
  IF ~Enabled(settings) THEN [c EXCEPT !.pc = "returned", !.inner = ""]
  ELSE IF FilterInScope(settings) /\ ~c.arg[1] THEN [c EXCEPT !.pc = "returned", !.inner = ""]
  ELSE [c EXCEPT !.pc = "forward", !.inner = "send",
                 !.fwd = Some(Artifact(c.requestUrl[1], c.requestRawChunk[1], c.responseRawChunk[1])),
                 !.target = Some(Target(settings))]

\* a response passes through the proxy and the handler is invoked: it runs up to
\* `await getSettings` when nothing is cached, and from the cached settings otherwise;
\* what is left of the previous invocation is forgotten
InterceptResponse(h, inScope) ==
  /\ \A c \in Outstanding(h) : c.pc \in {"returned", "thrown"}
  /\ LET seq == IF Outstanding(h) = {} THEN 1 ELSE (CHOOSE c \in Outstanding(h) : TRUE).seq + 1
         c == [HandlerCall(h, inScope) EXCEPT !.seq = seq]
     IN /\ seq <= MaxHookCalls
        /\ calls' = (calls \ Outstanding(h)) \cup
                      {IF NotCached(globalSettings) THEN [c EXCEPT !.pc = "await", !.inner = "load"]
                       ELSE AfterSettings(c, globalSettings[1])}
  /\ UNCHANGED <<chunkSessions, now, sender, fwdCount, evicted, envCalls, settingsFile, globalSettings, uiCalls, fetcher, envResult>>

\* the handler resumes after `await getSettings`: it caches what was read and goes on
\* with it (lines 271-282); when what was read is null, `settings.enabled` throws
\* (line 285) and the handler is rejected
InterceptLoaded(c) ==
  /\ c \in calls
  /\ c.op = "onInterceptResponse" /\ c.pc = "await" /\ c.inner = "load" /\ c.io # Null
  /\ LET settingsResponse == getSettingsResult(c.io[1])
         loaded == IF settingsResponse.success THEN settingsResponse.data ELSE DEFAULT_SETTINGS
     IN /\ globalSettings' = Cached(loaded)
        /\ calls' = (calls \ {c}) \cup
                      {IF Cached(loaded) = Null THEN [c EXCEPT !.pc = "thrown", !.io = Null, !.inner = ""]
                       ELSE AfterSettings([c EXCEPT !.io = Null], loaded)}
  /\ UNCHANGED <<chunkSessions, now, sender, fwdCount, evicted, envCalls, settingsFile, uiCalls, fetcher, envResult>>

(***************************************************************************)
(* fetchAndSendUrls: every URL of a list is fetched through the backend    *)
(* and what was fetched is sent with sendToJxscoutWithChunking.            *)
(***************************************************************************)
\* the state of fetchAndSendUrls before it is called with the list urls; fetched and
\* sent are observations: the positions of the list for which fetchUrl was called and
\* for which sendToJxscoutWithChunking was called
FetcherIdle(urls) ==
  [urls |-> urls, pc |-> "idle", idx |-> 0, successCount |-> 0, errorCount |-> 0,
   fetched |-> <<>>, sent |-> <<>>, result |-> Null]

\* sdk.backend.fetchUrl(url) as issued by the caller f
FetchCall(f, url) == [UiCall(f, "fetchUrl", Some(url)) EXCEPT !.pc = "called", !.start = -1]

\* the loop stops at the first URL that fails
FetcherLoopStops(st, i, rest) ==
  IF i <= Len(st.urls) /\ st.errorCount = 0
  THEN /\ fetcher' = [st EXCEPT !.pc = "fetch", !.idx = i, !.fetched = Append(@, i)]
       /\ calls' = rest \cup {FetchCall("fas", st.urls[i])}
  ELSE /\ fetcher' = [st EXCEPT !.pc = "done", !.idx = i,
                                !.result = Some([successCount |-> st.successCount,
                                                 errorCount |-> st.errorCount])]
       /\ calls' = rest

\* the for-of loop at its test, the next URL being urls[i]: fetchUrl is called for it,
\* or the loop is left and the counts are returned
FetcherLoop(st, i, rest) ==
  IF i <= Len(st.urls)
  THEN /\ fetcher' = [st EXCEPT !.pc = "fetch", !.idx = i, !.fetched = Append(@, i)]
       /\ calls' = rest \cup {FetchCall("fas", st.urls[i])}
  ELSE /\ fetcher' = [st EXCEPT !.pc = "done", !.idx = i,
                                !.result = Some([successCount |-> st.successCount,
                                                 errorCount |-> st.errorCount])]
       /\ calls' = rest

\* fetchAndSendUrls is called: everything up to its first await
FetcherStart ==
  /\ fetcher.pc = "idle"
  /\ FetcherLoop(fetcher, 1, calls)
  /\ UNCHANGED <<chunkSessions, now, sender, fwdCount, evicted, envCalls, settingsFile, globalSettings, uiCalls, envResult>>

\* a fetchUrl call reaches the backend: `new URL(url)` throws into the catch clause,
\* or the function runs up to `await sdk.requests.send`
BackendFetch(c) ==
  /\ c \in calls
  /\ c.op = "fetchUrl"
  /\ c.pc = "called"
  /\ calls' = (calls \ {c}) \cup
       {IF c.arg[1] = ""
        THEN [c EXCEPT !.pc = "returned", !.start = now, !.result = Some(error(FetchFailedMsg))]
        ELSE [c EXCEPT !.pc = "await", !.start = now]}
  /\ UNCHANGED <<chunkSessions, now, sender, fwdCount, evicted, envCalls, settingsFile, globalSettings, uiCalls, fetcher, envResult>>

\* `await sdk.backend.fetchUrl(url)` gave a result: the fetched pair is handed to
\* sendToJxscoutWithChunking, which runs up to its first await, or the failure is
\* counted and the loop goes on
FetcherAfterFetch(s, c) ==
  /\ c \in calls
  /\ c.caller \in FetchCallers
  /\ c.pc = "returned"
  /\ fetcher.pc = "fetch"
  /\ LET fetchResult == c.result[1]
         url == fetcher.urls[fetcher.idx]
     IN IF fetchResult.success
        THEN /\ fetcher' = [fetcher EXCEPT !.pc = "send", !.sent = Append(@, fetcher.idx)]
             /\ StartSend(s, SenderInit("helper", url, fetchResult.data.requestRaw, fetchResult.data.responseRaw),
                          calls \ {c})
        ELSE /\ FetcherLoop([fetcher EXCEPT !.errorCount = @ + 1], fetcher.idx + 1, calls \ {c})
             /\ sender' = sender
  /\ UNCHANGED <<chunkSessions, now, fwdCount, evicted, envCalls, settingsFile, globalSettings, uiCalls, envResult>>

\* `await sdk.backend.fetchUrl(url)` was rejected: the catch clause of the loop body
FetcherCatch(c) ==
  /\ c \in calls
  /\ c.caller \in FetchCallers
  /\ c.pc = "thrown"
  /\ fetcher.pc = "fetch"
  /\ FetcherLoop([fetcher EXCEPT !.errorCount = @ + 1], fetcher.idx + 1, calls \ {c})
  /\ UNCHANGED <<chunkSessions, now, sender, fwdCount, evicted, envCalls, settingsFile, globalSettings, uiCalls, envResult>>

\* `await sendToJxscoutWithChunking(...)` has ended: its result is counted (a rejection
\* is counted by the catch clause) and the loop goes on
FetcherAfterSend(s) ==
  /\ fetcher.pc = "send"
  /\ sender[s].pc = "done"
  /\ LET result == sender[s].outcome[1]
     IN IF result.kind = "success"
        THEN FetcherLoop([fetcher EXCEPT !.successCount = @ + 1], fetcher.idx + 1, calls)
        ELSE FetcherLoop([fetcher EXCEPT !.errorCount = @ + 1], fetcher.idx + 1, calls)
  /\ UNCHANGED <<chunkSessions, now, sender, fwdCount, evicted, envCalls, settingsFile, globalSettings, uiCalls, envResult>>

\* the module has just been loaded: nothing in the session table, nothing cached
\* (lines 14-26); there is no settings file yet
InitBackend ==
  /\ chunkSessions = [k \in {} |-> NewSession(0, Null, 0)]
  /\ now = 0
  /\ calls = {}
  /\ fwdCount = [k \in SessionIds |-> 0]
  /\ evicted = {}
  /\ envCalls = 0
  /\ settingsFile = Absent
  /\ globalSettings = Null
  /\ uiCalls = 0
  /\ envResult = Null
  /\ fetcher = FetcherIdle(<<>>)

Init ==
  /\ InitBackend
  /\ sender \in [Senders -> {SenderInit(kind, "u1", RequestText(n), ResponseText(m)) :
                                kind \in SenderKinds, n \in {1}, m \in 0..MaxLen}]

Next ==
  \/ \E s \in Senders : SenderStart(s)
  \/ \E s \in Senders : SenderResume(s)
  \/ \E s \in Senders : SenderCatch(s)
  \/ \E c \in calls : BackendChunk(c)
  \/ \E c \in calls : BackendDirect(c)
  \/ \E c \in calls : ReadFile(c)
  \/ \E c \in calls : SettingsLoaded(c)
  \/ \E c \in calls, outcome \in ForwardOutcomes : ForwardEnd(c, outcome)
  \/ \E c \in calls : RpcFail(c)
  \/ \E e \in EnvCallers, a \in EnvArgs :
        EnvChunk(e, a.sessionId, a.chunkIndex, a.totalChunks, a.requestUrl, a.requestRawChunk, a.responseRawChunk)
  \/ Tick

Spec == Init /\ [][Next]_vars

(***************************************************************************)
(* One sender alone with the backend, for every artifact: every url and    *)
(* every request and response text of at most MaxLen characters.           *)
(***************************************************************************)
InitRT ==
  /\ InitBackend
  /\ sender \in [Senders -> {SenderInit(kind, url, req, resp) :
                                kind \in SenderKinds, url \in Urls, req \in Texts(MaxLen), resp \in Texts(MaxLen)}]

NextRT ==
  \/ \E s \in Senders : SenderStart(s)
  \/ \E s \in Senders : SenderResume(s)
  \/ \E s \in Senders : SenderCatch(s)
  \/ \E c \in calls : BackendChunk(c)
  \/ \E c \in calls : BackendDirect(c)
  \/ \E c \in calls : ReadFile(c)
  \/ \E c \in calls : SettingsLoaded(c)
  \/ \E c \in calls, outcome \in ForwardOutcomes : ForwardEnd(c, outcome)
  \/ \E c \in calls : RpcFail(c)
  \/ Tick

SpecRT == InitRT /\ [][NextRT]_vars

(***************************************************************************)
(* The whole API: one sender, the settings page and the URL fetcher; the   *)
(* settings file holds anything and nothing is cached yet.                 *)
(***************************************************************************)
InitApi ==
  /\ chunkSessions = [k \in {} |-> NewSession(0, Null, 0)]
  /\ now = 0
  /\ calls = {}
  /\ fwdCount = [k \in SessionIds |-> 0]
  /\ evicted = {}
  /\ envCalls = 0
  /\ settingsFile \in FileContents
  /\ globalSettings = Null
  /\ uiCalls = 0
  /\ envResult = Null
  /\ fetcher = FetcherIdle(<<>>)
  /\ sender \in [Senders -> {SenderInit("helper", "u1", RequestText(1), ResponseText(m)) : m \in {0, MaxLen}}]

NextApi ==
  \/ \E s \in Senders : SenderStart(s)
  \/ \E s \in Senders : SenderResume(s)
  \/ \E s \in Senders : SenderCatch(s)
  \/ \E c \in calls : BackendChunk(c)
  \/ \E c \in calls : BackendDirect(c)
  \/ \E c \in calls, outcome \in ForwardOutcomes : ForwardEnd(c, outcome)
  \/ \E u \in UiCallers : GetSettingsCall(u)
  \/ \E c \in calls : ReadFile(c)
  \/ \E c \in calls : GetSettingsReturn(c)
  \/ \E c \in calls : SettingsLoaded(c)
  \/ \E u \in UiCallers, settings \in SettingsValues : SaveSettingsCall(u, settings)
  \/ \E c \in calls, opened \in BOOLEAN : OpenFile(c, opened)
  \/ \E c \in calls, written \in BOOLEAN : WriteFile(c, written)
  \/ \E c \in calls : SaveSettingsReturn(c)
  \/ \E u \in UiCallers, url \in FetchUrls : FetchUrlCall(u, url)
  \/ \E c \in calls, outcome \in FetchOutcomes : FetchEnd(c, outcome)
  \/ \E u \in UiCallers : DirectSendCall(u)
  \/ \E u \in UiCallers : UiResume(u)
  \/ Tick

SpecApi == InitApi /\ [][NextApi]_vars

(***************************************************************************)
(* Two runs of the sender at the same time, each with its own artifact of  *)
(* two chunks, next to another client of sendToJxscoutChunk.               *)
(***************************************************************************)
TwoSenders == {"snd", "snd2"}

InitTwo ==
  /\ InitBackend
  /\ sender \in [TwoSenders -> {SenderInit(kind, "u1", RequestText(1), ResponseText(MaxLen)) : kind \in SenderKinds}
                                 \cup {SenderInit("helper", "u2", RequestText(MaxLen), <<>>)}]
  /\ sender["snd"].requestUrl = "u1"
  /\ sender["snd2"].requestUrl = "u2"

\* the chunks of a transfer of two chunks that another client makes under one of the
\* sessionIds
ThirdTransfer == {a \in EnvArgs : a.totalChunks = 2 /\ a.chunkIndex <= 1 /\ a.requestUrl # Null}

NextTwo ==
  \/ \E s \in TwoSenders : SenderStart(s)
  \/ \E s \in TwoSenders : SenderResume(s)
  \/ \E s \in TwoSenders : SenderCatch(s)
  \/ \E c \in calls : BackendChunk(c)
  \/ \E c \in calls : ReadFile(c)
  \/ \E c \in calls : SettingsLoaded(c)
  \/ \E c \in calls, outcome \in ForwardOutcomes : ForwardEnd(c, outcome)
  \/ \E c \in calls : RpcFail(c)
  \/ \E e \in EnvCallers, a \in ThirdTransfer :
        EnvChunk(e, a.sessionId, a.chunkIndex, a.totalChunks, a.requestUrl, a.requestRawChunk, a.responseRawChunk)
  \/ Tick

SpecTwo == InitTwo /\ [][NextTwo]_vars

(***************************************************************************)
(* One sender alone with the backend, under the scheduling of the event    *)
(* loop: a continuation that is ready runs, a call that was issued is      *)
(* delivered or rejected, a request that was sent ends.                    *)
(***************************************************************************)
InitLive ==
  /\ InitBackend
  /\ sender \in [Senders -> {SenderInit(kind, "u1", RequestText(n), ResponseText(m)) :
                                kind \in SenderKinds, n \in 0..MaxLen, m \in 0..MaxLen}]

\* the steps of the sender and of the calls it awaits
Progress ==
  \/ \E s \in Senders : SenderStart(s)
  \/ \E s \in Senders : SenderResume(s)
  \/ \E s \in Senders : SenderCatch(s)
  \/ \E c \in calls : BackendChunk(c)
  \/ \E c \in calls : BackendDirect(c)
  \/ \E c \in calls : ReadFile(c)
  \/ \E c \in calls : SettingsLoaded(c)
  \/ \E c \in calls, outcome \in ForwardOutcomes : ForwardEnd(c, outcome)
  \/ \E c \in calls : RpcFail(c)

NextLive == Progress \/ Tick

SpecLive == InitLive /\ [][NextLive]_vars /\ WF_vars(Progress)

(***************************************************************************)
(* fetchAndSendUrls alone with the backend, for every list of at most      *)
(* MaxUrls URLs: a small resource, a large one, and a URL that cannot be   *)
(* parsed.                                                                 *)
(***************************************************************************)
FetchListUrls == {"u1", "u2", ""}

UrlLists == UNION {[1..n -> FetchListUrls] : n \in 0..MaxUrls}

InitFetch ==
  /\ chunkSessions = [k \in {} |-> NewSession(0, Null, 0)]
  /\ now = 0
  /\ calls = {}
  /\ fwdCount = [k \in SessionIds |-> 0]
  /\ evicted = {}
  /\ envCalls = 0
  /\ settingsFile = Absent
  /\ globalSettings = Null
  /\ uiCalls = 0
  /\ envResult = Null
  /\ sender = [s \in Senders |-> SenderInit("helper", "", <<>>, <<>>)]
  /\ fetcher \in {FetcherIdle(urls) : urls \in UrlLists}

NextFetch ==
  \/ FetcherStart
  \/ \E c \in calls : BackendFetch(c)
  \/ \E c \in calls, outcome \in FetchOutcomes : FetchEnd(c, outcome)
  \/ \E s \in Senders, c \in calls : FetcherAfterFetch(s, c)
  \/ \E c \in calls : FetcherCatch(c)
  \/ \E s \in Senders : FetcherAfterSend(s)
  \/ \E s \in Senders : SenderResume(s)
  \/ \E s \in Senders : SenderCatch(s)
  \/ \E c \in calls : BackendChunk(c)
  \/ \E c \in calls : BackendDirect(c)
  \/ \E c \in calls : ReadFile(c)
  \/ \E c \in calls : SettingsLoaded(c)
  \/ \E c \in calls, outcome \in ForwardOutcomes : ForwardEnd(c, outcome)
  \/ \E c \in calls : RpcFail(c)
  \/ Tick

SpecFetch == InitFetch /\ [][NextFetch]_vars

(***************************************************************************)
(* The intercept handler next to the settings page and to a caller of      *)
(* sendToJxscoutChunk: the settings file holds anything and nothing is     *)
(* cached yet.                                                             *)
(***************************************************************************)
InitHook ==
  /\ chunkSessions = [k \in {} |-> NewSession(0, Null, 0)]
  /\ now = 0
  /\ calls = {}
  /\ fwdCount = [k \in SessionIds |-> 0]
  /\ evicted = {}
  /\ envCalls = 0
  /\ settingsFile \in {Absent, Garbage} \cup {JSONstringify(v) : v \in HookSettings \cup NotSettings}
  /\ globalSettings = Null
  /\ uiCalls = 0
  /\ envResult = Null
  /\ fetcher = FetcherIdle(<<>>)
  /\ sender = [s \in Senders |-> SenderInit("helper", "", <<>>, <<>>)]

\* the first chunks of transfers that another client begins
FirstChunks == {a \in EnvArgs : a.chunkIndex = 0 /\ a.sessionId = "s1" /\ a.requestUrl # Null}

NextHook ==
  \/ \E h \in HookCallers, inScope \in BOOLEAN : InterceptResponse(h, inScope)
  \/ \E c \in calls : ReadFile(c)
  \/ \E c \in calls : InterceptLoaded(c)
  \/ \E c \in calls : SettingsLoaded(c)
  \/ \E c \in calls, outcome \in ForwardOutcomes : ForwardEnd(c, outcome)
  \/ \E u \in UiCallers, settings \in HookSettings : SaveSettingsCall(u, settings)
  \/ \E c \in calls, opened \in BOOLEAN : OpenFile(c, opened)
  \/ \E c \in calls, written \in BOOLEAN : WriteFile(c, written)
  \/ \E c \in calls : SaveSettingsReturn(c)
  \/ \E u \in UiCallers : UiResume(u)
  \/ \E e \in EnvCallers, a \in FirstChunks :
        EnvChunk(e, a.sessionId, a.chunkIndex, a.totalChunks, a.requestUrl, a.requestRawChunk, a.responseRawChunk)

SpecHook == InitHook /\ [][NextHook]_vars

(***************************************************************************)
(* Properties.                                                             *)
(***************************************************************************)
IsChunk(c) == c.op = "sendToJxscoutChunk"

\* the arguments with which sendToJxscoutChunk can run in the current state:
\* those of arbitrary callers and those of the calls that senders have issued
ChunkArgs ==
  EnvArgs \cup
  {[sessionId |-> c.sessionId, chunkIndex |-> c.chunkIndex, totalChunks |-> c.totalChunks,
    requestUrl |-> c.requestUrl, requestRawChunk |-> c.requestRawChunk,
    responseRawChunk |-> c.responseRawChunk] : c \in {d \in calls : IsChunk(d) /\ d.pc = "called"}}

\* what sendToJxscoutChunk does in the current state when it runs with the arguments a
SyncOf(a) ==
  ChunkSync(chunkSessions, now, a.sessionId, a.chunkIndex, a.totalChunks,
            a.requestUrl, a.requestRawChunk, a.responseRawChunk)

SessionArtifact(session) == Artifact(session.requestUrl, session.requestRaw, session.responseRaw)

\* the step makes the session sessionId reach receivedChunks >= totalChunks
Completes(sessionId) ==
  /\ sessionId \in DOMAIN chunkSessions'
  /\ chunkSessions'[sessionId].receivedChunks >= chunkSessions'[sessionId].totalChunks
  /\ \/ sessionId \notin DOMAIN chunkSessions
     \/ chunkSessions'[sessionId] # chunkSessions[sessionId]

\* the sendToJxscoutChunk calls that the step suspends in `await sendToJxscout`
NewForwards(sessionId) ==
  {c \in calls' \ calls : IsChunk(c) /\ c.pc = "forward" /\ c.sessionId = sessionId}

\* the step lets the suspended sendToJxscoutChunk call c return
Returns(c) ==
  /\ c \in calls /\ IsChunk(c) /\ c.pc = "forward"
  /\ \A d \in calls' : ~(d.caller = c.caller /\ d.pc = "forward")

\* the step starts exactly one sendToJxscout invocation for every session it completes,
\* with the url and the buffers of that session
ForwardsOnCompletion ==
  \A sessionId \in SessionIds :
    Completes(sessionId) =>
      /\ Cardinality(NewForwards(sessionId)) = 1
      /\ \A c \in NewForwards(sessionId) :
           c.fwd = Some(SessionArtifact(chunkSessions'[sessionId]))

\* when the step lets a completing call return, its sessionId is not in the table
\* and the value returned is the one that the outcome of the forward determines
RemovedOnReturn ==
  \A c \in calls :
    Returns(c) =>
      /\ c.sessionId \notin DOMAIN chunkSessions'
      /\ (c.caller \in Senders =>
            \E d \in calls' : /\ d.caller = c.caller /\ d.pc = "returned" /\ d.fwd = c.fwd
                               /\ d.result \in {Some(ChunkResult(o)) : o \in ForwardOutcomes})

\* C1: the call that makes a session reach receivedChunks >= totalChunks invokes
\* sendToJxscout exactly once, with the url and the buffers of the session, and when
\* that call returns (forward succeeded, failed or threw) the sessionId is not in the table.
C1_CompletionForwardsOnceAndRemoves == [][ForwardsOnCompletion /\ RemovedOnReturn]_vars

\* a completing call of a sender has returned after its forward failed or threw, and the session is gone
C1_Witness ==
  \E c \in calls :
    /\ IsChunk(c) /\ c.pc = "returned" /\ c.fwd # Null
    /\ c.result \in {Some(error(SendFailedMsg)), Some(error(ThrownMsg))}
    /\ c.sessionId \notin DOMAIN chunkSessions

\* C2: under every interleaving of sendToJxscoutChunk calls, sendToJxscout is invoked
\* at most once for one entry of the session table.
C2_AtMostOneForwardPerSession ==
  \A sessionId \in SessionIds : fwdCount[sessionId] <= 1

\* the artifact that the sender s was asked to send
SenderArtifact(s) == Artifact(sender[s].requestUrl, sender[s].requestRaw, sender[s].responseRaw)

\* C3: round trip.  When the chunks of a sender's artifact are the chunks submitted to its
\* session, in index order and with no eviction in between, the url, request and response
\* passed to sendToJxscout equal the url, requestRaw and responseRaw of the artifact.
C3_RoundTrip ==
  \A c \in calls :
    (IsChunk(c) /\ c.caller \in Senders /\ c.fwd # Null) => c.fwd = Some(SenderArtifact(c.caller))

\* a transfer of two chunks whose request and response have different numbers of pieces
\* has been forwarded and has returned complete
C3_Witness ==
  \E c \in calls :
    /\ IsChunk(c) /\ c.caller \in Senders /\ c.pc = "returned"
    /\ c.result = Some(ok([complete |-> TRUE]))
    /\ c.fwd = Some(SenderArtifact(c.caller))
    /\ sender[c.caller].totalChunks >= 2
    /\ Len(chunkString(sender[c.caller].requestRaw, CHUNK_SIZE)) \in 1..(sender[c.caller].totalChunks - 1)
    /\ Length(sender[c.caller].requestRaw) + Length(sender[c.caller].responseRaw) > CHUNK_SIZE

\* the table as the sweep of a call that starts now leaves it
Swept == cleanupExpiredSessions(chunkSessions, now)

\* C4: a call whose chunkIndex differs from the receivedChunks of the existing session
\* (a skipped index or a repeated one) returns the failure "Expected chunk <receivedChunks>"
\* and leaves the session as it was: url, buffers, receivedChunks, totalChunks and
\* timestamp are unchanged and the session stays in the table.
C4_OutOfOrderRejected ==
  LET swept == Swept
  IN \A a \in ChunkArgs :
       (a.sessionId \in DOMAIN swept /\ a.chunkIndex # swept[a.sessionId].receivedChunks) =>
         LET r == SyncOf(a)
         IN /\ r.pc = "returned"
            /\ r.fwd = Null
            /\ r.result = Some(error(ExpectedMsg(chunkSessions[a.sessionId].receivedChunks, a.chunkIndex)))
            /\ a.sessionId \in DOMAIN r.table
            /\ r.table[a.sessionId] = chunkSessions[a.sessionId]

\* a call of a sender has been rejected as out of order; its session is in the table
\* with the receivedChunks that the failure names
C4_Witness ==
  \E c \in calls :
    /\ IsChunk(c) /\ c.pc = "returned"
    /\ c.sessionId \in DOMAIN chunkSessions
    /\ c.chunkIndex # chunkSessions[c.sessionId].receivedChunks
    /\ c.result = Some(error(ExpectedMsg(chunkSessions[c.sessionId].receivedChunks, c.chunkIndex)))

\* C5: a call with chunkIndex != 0 for a sessionId that is not in the table after the sweep
\* returns "Session not found", invokes no forward and creates no entry for the sessionId.
C5_UnknownSessionRejected ==
  LET swept == Swept
  IN \A a \in ChunkArgs :
       (a.sessionId \notin DOMAIN swept /\ a.chunkIndex # 0) =>
         LET r == SyncOf(a)
         IN /\ r.pc = "returned"
            /\ r.fwd = Null
            /\ r.result = Some(error(NotFoundMsg))
            /\ a.sessionId \notin DOMAIN r.table

\* a call of a sender with a non-zero index has returned "Session not found";
\* there is no entry for its sessionId
C5_Witness ==
  \E c \in calls :
    /\ IsChunk(c) /\ c.pc = "returned" /\ c.chunkIndex # 0 /\ c.fwd = Null
    /\ c.result = Some(error(NotFoundMsg))
    /\ c.sessionId \notin DOMAIN chunkSessions

\* C6: once a sendToJxscoutChunk call has run, whatever its sessionId and outcome, the
\* table holds no session whose timestamp is more than SESSION_TIMEOUT older than the
\* time at which the call started.
C6_NoStaleSessionAfterCall ==
  /\ \A a \in ChunkArgs :
       LET after == SyncOf(a).table
       IN \A k \in DOMAIN after : now - after[k].timestamp <= SESSION_TIMEOUT
  /\ \A c \in calls :
       (IsChunk(c) /\ c.pc \in {"forward", "returned"}) =>
         \A k \in DOMAIN chunkSessions : c.start - chunkSessions[k].timestamp <= SESSION_TIMEOUT

\* a call has run after the entry of another sessionId went stale, and that entry is gone
C6_Witness ==
  \E c \in calls :
    /\ IsChunk(c) /\ c.pc \in {"forward", "returned"}
    /\ c.start > SESSION_TIMEOUT
    /\ \E k \in evicted : k # c.sessionId /\ k \notin DOMAIN chunkSessions

\* the calls the sender s has outstanding after the step
OutstandingNext(s) == {c \in calls' : c.caller = s}

TotalSize(s) == Length(sender[s].requestRaw) + Length(sender[s].responseRaw)

\* the step is a step of the send of s: its state or its outstanding calls change
SendStep(s) == sender'[s] # sender[s] \/ OutstandingNext(s) # Outstanding(s)

DirectOnly ==
  \A s \in Senders :
    TotalSize(s) <= CHUNK_SIZE =>
      /\ sender'[s].issued = <<>>
      /\ \A c \in OutstandingNext(s) : c.op = "sendToJxscout"
      /\ Cardinality(OutstandingNext(s)) <= 1
      /\ sender'[s].direct = IF sender'[s].pc = "idle" THEN 0 ELSE 1
      /\ \A c \in OutstandingNext(s) \ Outstanding(s) :
           c.pc = "forward" => c.fwd = Some(SenderArtifact(s))
      /\ SendStep(s) => chunkSessions' = chunkSessions

\* C7: for an artifact with len(requestRaw) + len(responseRaw) <= CHUNK_SIZE, the boundary
\* included, the sender issues exactly one direct sendToJxscout call and no
\* sendToJxscoutChunk call, and no step of the send changes the session table.
C7_SmallArtifactSentDirectly == [][DirectOnly]_vars

\* an artifact of exactly CHUNK_SIZE characters has been sent with one direct call
C7_Witness ==
  \E s \in Senders :
    /\ TotalSize(s) = CHUNK_SIZE
    /\ sender[s].pc = "done"
    /\ sender[s].direct = 1
    /\ sender[s].issued = <<>>
    /\ sender[s].outcome = Some(Outcome("success", NoMsg))

Sequential ==
  \A s \in Senders :
    LET before == sender[s].issued
        after == sender'[s].issued
    IN /\ Cardinality(OutstandingNext(s)) <= 1
       /\ \A j \in 1..Len(after) : after[j] = j - 1
       /\ \A c \in OutstandingNext(s) : IsChunk(c) => c.chunkIndex = Len(after) - 1
       /\ Len(after) \in {Len(before), Len(before) + 1}
       /\ (Len(after) > Len(before) /\ Len(before) >= 1) =>
            \E c \in calls \ calls' :
              /\ c.caller = s /\ c.pc = "returned" /\ c.chunkIndex = Len(before) - 1

\* C8: for one artifact the sender never has two chunk calls outstanding; call i + 1 is
\* issued in the step that consumes the result of call i, and the indices issued are
\* 0, 1, 2, ... with no gap and no repeat.
C8_SequentialChunkCalls == [][Sequential]_vars

\* a transfer of two chunks has been sent to the end
C8_Witness ==
  \E s \in Senders :
    /\ sender[s].pc = "done"
    /\ sender[s].issued = <<0, 1>>
    /\ sender[s].outcome = Some(Outcome("success", NoMsg))

\* the chunked send of s has ended in failure
FailedChunked(s) ==
  /\ sender[s].pc = "done"
  /\ sender[s].issued # <<>>
  /\ sender[s].outcome # Null
  /\ sender[s].outcome[1].kind = "failure"

\* the step that consumes a failed chunk result ends the send with that result's error
\* and issues nothing; a failed send never acts again
SenderStops(s) ==
  /\ \A c \in calls \ calls' :
       (c.caller = s /\ IsChunk(c) /\ c.pc = "returned" /\ ~c.result[1].success) =>
         /\ sender'[s].pc = "done"
         /\ sender'[s].outcome = Some(Outcome("failure", c.result[1].error))
         /\ sender'[s].issued = sender[s].issued
         /\ OutstandingNext(s) = {}
  /\ FailedChunked(s) =>
       /\ sender'[s] = sender[s]
       /\ OutstandingNext(s) = {}

\* the session that the failed send of s left behind leaves the table in this step
Abandoned(s) ==
  /\ FailedChunked(s)
  /\ sender[s].sessionId \in DOMAIN chunkSessions
  /\ sender[s].sessionId \notin DOMAIN chunkSessions'

\* the step is the return of a completing call that another caller made with the
\* sessionId of s
CompletedByAnother(s) ==
  \E c \in calls \ calls' :
    IsChunk(c) /\ c.pc = "forward" /\ c.caller # s /\ c.sessionId = sender[s].sessionId

FailFast ==
  \A s \in Senders :
    /\ SenderStops(s)
    /\ Abandoned(s) =>
         \/ sender[s].sessionId \in Expired(chunkSessions, now)
         \/ CompletedByAnother(s)

FailFastUntilSweep ==
  \A s \in Senders :
    /\ SenderStops(s)
    /\ Abandoned(s) => sender[s].sessionId \in Expired(chunkSessions, now)

\* C9 as stated: when a chunk call of the sender returns a failure, the sender issues
\* no further call for the artifact and its result is a failure that carries the error
\* of that call; the session it leaves behind stays in the table until a sweep evicts
\* it. The last part fails: a call that another caller made with the same sessionId
\* and that is suspended in the forward removes the session, not yet expired, when it
\* returns.
C9_StaysUntilSweep == [][FailFastUntilSweep]_vars

\* C9, amended: when a chunk call of the sender returns a failure, the sender issues no
\* further call for the artifact (no chunk call, no cleanup call) and its result is a
\* failure that carries the error of that call; the session it leaves behind is removed
\* from the table by no step of the sender: it stays until a sweep evicts it or until a
\* call that another caller made with the same sessionId completes it.
C9_FailFastAbandonsSession == [][FailFast]_vars

\* the send has failed on a chunk call and the session it abandoned is in the table
C9_Witness ==
  \E s \in Senders :
    /\ FailedChunked(s)
    /\ sender[s].outcome[1].error.text = ExpectedMsg(0, 0).text
    /\ Len(sender[s].issued) < sender[s].totalChunks
    /\ sender[s].sessionId \in DOMAIN chunkSessions
    /\ now - chunkSessions[sender[s].sessionId].timestamp > 0

\* the loop of s has run through all its chunks: no call failed and none returned complete
Exhausted(s) ==
  /\ sender[s].pc = "done"
  /\ sender[s].totalChunks > 0
  /\ sender[s].i = sender[s].totalChunks

\* C10: in every sender path that chunks (the helper and the chunked branch of the
\* command), when all totalChunks calls return success and none returns complete, the
\* send ends with the reported failure "Not all chunks were processed".
C10_ExhaustedLoopReported ==
  \A s \in Senders :
    Exhausted(s) => sender[s].outcome = Some(Outcome("failure", NotAllMsg))

\* C11: in every reachable state every session in the table has
\* receivedChunks <= totalChunks, whatever the interleaving of the calls and
\* whatever totalChunks the chunk that created the session carried.
C11_ReceivedAtMostTotal ==
  \A k \in DOMAIN chunkSessions : chunkSessions[k].receivedChunks <= chunkSessions[k].totalChunks

\* the step runs sendToJxscoutChunk for the call c up to its await or its return, leaving d
Ran(c, d) ==
  /\ c \in calls /\ IsChunk(c) /\ c.pc = "called"
  /\ d \in calls' \ calls /\ d.caller = c.caller /\ d.pc \in {"forward", "returned"}

\* the chunk of c passes the tests of lines 147-166 when its call starts now: after
\* the sweep its session is there with receivedChunks = chunkIndex, or there is none
\* and the chunk is the first
InOrder(c) ==
  IF c.sessionId \in DOMAIN Swept
  THEN Swept[c.sessionId].receivedChunks = c.chunkIndex
  ELSE c.chunkIndex = 0

\* the totalChunks of the session of the chunk c: that of the entry in the table, and
\* that of the chunk when the chunk creates the entry (line 157)
SessionTotal(c) ==
  IF c.sessionId \in DOMAIN Swept THEN Swept[c.sessionId].totalChunks ELSE c.totalChunks

CompleteOnLast ==
  \A c \in calls, d \in calls' :
    (Ran(c, d) /\ InOrder(c)) =>
      IF c.chunkIndex < SessionTotal(c) - 1
      THEN d.pc = "returned" /\ d.fwd = Null /\ d.result = Some(ok([complete |-> FALSE]))
      ELSE d.pc = "forward" /\ d.fwd # Null /\ d.result = Null

\* the same for the chunk of any caller, were its call to run in the current state
CompleteOnLastOfAny ==
  \A a \in ChunkArgs :
    InOrder(a) =>
      LET r == SyncOf(a)
      IN IF a.chunkIndex < SessionTotal(a) - 1
         THEN r.pc = "returned" /\ r.fwd = Null /\ r.result = Some(ok([complete |-> FALSE]))
         ELSE r.pc = "forward" /\ r.fwd # Null /\ r.result = Null

ReportsForward ==
  \A c \in calls, d \in calls' \ calls :
    (Returns(c) /\ d.caller = c.caller /\ d.pc = "returned") =>
      IF d.fwdResult = Null
      THEN ~d.result[1].success
      ELSE /\ d.result[1].success <=> d.fwdResult[1].success
           /\ d.result[1].success => d.result[1].data.complete
           /\ ~d.result[1].success => d.result[1].error = d.fwdResult[1].error

\* complete=true is returned, to a sender or to any other caller, only by a call that
\* was suspended in the forward
CompleteOnlyAfterForward ==
  /\ \A d \in calls' :
       (IsChunk(d) /\ d.result = Some(ok([complete |-> TRUE]))) =>
         d.fwd # Null /\ d.fwdResult = Some(ok(Undefined))
  /\ (envResult' # envResult /\ envResult'[1].result = ok([complete |-> TRUE])) =>
       \E c \in calls : Returns(c) /\ c.caller \in EnvCallers

\* C12: when the chunks 0..totalChunks-1 of a session are submitted in order with no
\* eviction in between, every call before the last returns success with complete=false
\* and invokes no forward; the last call invokes it and returns complete=true exactly
\* when the forward succeeds, and the error of the forwarder when it fails;
\* complete=true is never returned by a call that did not forward.
C12_CompleteOnlyOnLastChunk ==
  []CompleteOnLastOfAny /\ [][CompleteOnLast /\ ReportsForward /\ CompleteOnlyAfterForward]_vars

\* the last of at least two chunks has returned the error with which the forwarder failed
C12_Witness ==
  \E c \in calls :
    /\ IsChunk(c) /\ c.caller \in Senders /\ c.pc = "returned"
    /\ c.chunkIndex >= 1 /\ c.chunkIndex = sender[c.caller].totalChunks - 1
    /\ c.fwdResult = Some(error(SendFailedMsg))
    /\ c.result = c.fwdResult

\* the step lets the suspended call c return a failure: its forward failed or threw
\* (lines 198-204)
ForwardFailed(c) ==
  /\ Returns(c)
  /\ IF c.caller \in EnvCallers
     THEN ~envResult'[1].result.success
     ELSE \E d \in calls' \ calls : d.caller = c.caller /\ d.pc = "returned" /\ ~d.result[1].success

\* after the step there is nothing to resume: the sessionId has no entry and a call
\* with any index other than 0 is answered "Session not found" without a forward
NoResume ==
  \A c \in calls :
    ForwardFailed(c) =>
      /\ c.sessionId \notin DOMAIN chunkSessions'
      /\ \A a \in EnvArgs :
           (a.sessionId = c.sessionId /\ a.chunkIndex # 0) =>
             LET r == ChunkSync(chunkSessions', now', a.sessionId, a.chunkIndex, a.totalChunks,
                                a.requestUrl, a.requestRawChunk, a.responseRawChunk)
             IN /\ r.pc = "returned" /\ r.fwd = Null
                /\ r.result = Some(error(NotFoundMsg))
                /\ a.sessionId \notin DOMAIN r.table

\* an entry appears for a sessionId only through a chunk with index 0, and it holds
\* the data of that chunk and nothing else
FreshFromChunkZero ==
  \A sessionId \in SessionIds :
    (sessionId \notin DOMAIN chunkSessions /\ sessionId \in DOMAIN chunkSessions') =>
      \E a \in ChunkArgs :
        /\ a.sessionId = sessionId /\ a.chunkIndex = 0
        /\ chunkSessions'[sessionId] =
             AppendChunk(NewSession(a.totalChunks, a.requestUrl, now), 0,
                         a.requestUrl, a.requestRawChunk, a.responseRawChunk, now)

\* C13: after the final forward of a session has failed the session is gone: every
\* later call with its sessionId and an index other than 0 returns "Session not found"
\* and forwards nothing, and an entry for the sessionId can only come back as a new
\* session begun by a chunk 0, holding none of the data accumulated before.
C13_NoResumeAfterFailedForward == [][NoResume /\ FreshFromChunkZero]_vars

\* the forward of a sender's transfer has failed and, after that, a new session
\* has been started from chunk 0 under the same sessionId
C13_Witness ==
  \E s \in Senders :
    /\ FailedChunked(s)
    /\ sender[s].outcome[1].error = SendFailedMsg
    /\ sender[s].sessionId \in DOMAIN chunkSessions
    /\ chunkSessions[sender[s].sessionId].receivedChunks = 1
    /\ chunkSessions[sender[s].sessionId].requestUrl # sender[s].requestUrl

\* the step issues and runs the call of an arbitrary caller for the sessionId k: the
\* call is left suspended in the forward, or it has returned
EnvStarts(k) ==
  /\ envCalls' # envCalls
  /\ LET left == {d \in calls' \ calls : d.caller \in EnvCallers}
     IN IF left # {} THEN \E d \in left : d.sessionId = k
        ELSE envResult' # Null /\ envResult'[1].sessionId = k

\* the step runs sendToJxscoutChunk, from its start or from its await, for the sessionId k
ChunkStepOf(k) ==
  \/ \E c \in calls :
       /\ IsChunk(c) /\ c.sessionId = k
       /\ \/ \E d \in calls' : Ran(c, d)
          \/ Returns(c)
  \/ EnvStarts(k)

\* the step runs some sendToJxscoutChunk call from its start: a call that a sender
\* issued, or the call of an arbitrary caller
ChunkStarts == (\E c \in calls, d \in calls' : Ran(c, d)) \/ envCalls' # envCalls

\* a session changes or disappears only in a step of a call for its own sessionId;
\* the sweep of another session's call removes it when it has expired, and only then
OtherSessionsUntouched ==
  \A k \in DOMAIN chunkSessions :
    \/ ChunkStepOf(k)
    \/ k \in DOMAIN chunkSessions' /\ chunkSessions'[k] = chunkSessions[k]
    \/ k \notin DOMAIN chunkSessions' /\ k \in Expired(chunkSessions, now) /\ ChunkStarts

\* the two transfers that run at the same time use distinct sessionIds
DistinctSessions ==
  \A s, t \in DOMAIN sender : (s # t /\ sender[s].sessionId # "") => sender[s].sessionId # sender[t].sessionId

\* every forward made for a transfer carries the artifact of that transfer, when no
\* other client has submitted a chunk
OwnArtifact ==
  (DistinctSessions /\ envCalls = 0) =>
    \A c \in calls :
      (IsChunk(c) /\ c.fwd # Null /\ c.caller \in DOMAIN sender) => c.fwd = Some(SenderArtifact(c.caller))

\* C14: the calls of two sessionIds interleave in any order: a call for one session,
\* accepted, rejected or completing, leaves the url, the buffers, receivedChunks and
\* totalChunks of the other as they were, and when the chunks of each session arrive
\* in index order each session forwards exactly its own artifact.
C14_SessionsIndependent == [][OtherSessionsUntouched /\ OwnArtifact']_vars

\* two transfers with distinct sessionIds have been in the table together, with one
\* chunk each, and both have then been forwarded
C14_Witness ==
  /\ DistinctSessions
  /\ \A s \in TwoSenders :
       /\ s \in DOMAIN sender
       /\ sender[s].issued = <<0, 1>>
       /\ \E c \in calls : c.caller = s /\ c.pc = "forward" /\ c.fwd = Some(SenderArtifact(s))
  /\ \A k \in SessionIds : k \in DOMAIN chunkSessions /\ chunkSessions[k].receivedChunks = 2

\* C15: getSettings returns a success in every case: the parsed content of the file
\* when the file can be read and parsed, the defaults {port 3333, host localhost,
\* filterInScope true, enabled true} when it is absent or cannot be parsed.
C15_GetSettingsAlwaysSucceeds ==
  /\ \A file \in FileContents \cup {settingsFile} :
       LET r == getSettingsResult(file)
       IN /\ r.success
          /\ r.data = IF file.kind = "json" THEN file.denotes
                      ELSE [port |-> 3333, host |-> "localhost", filterInScope |-> TRUE, enabled |-> TRUE]
  /\ \A c \in calls :
       (c.op = "getSettings" /\ c.pc = "returned") =>
         /\ c.result[1].success
         /\ c.result[1].data = IF c.io[1].kind = "json" THEN c.io[1].denotes
                                ELSE [port |-> 3333, host |-> "localhost", filterInScope |-> TRUE, enabled |-> TRUE]

\* getSettings has returned the defaults for a file that cannot be parsed
C15_Witness ==
  \E c \in calls :
    /\ c.op = "getSettings" /\ c.pc = "returned"
    /\ c.io = Some(Garbage)
    /\ c.result = Some(ok(DEFAULT_SETTINGS))

\* the chunk calls that senders have issued and that have not yet reached the backend
IssuedChunkCalls == {c \in calls : IsChunk(c) /\ c.pc = "called" /\ c.caller \in DOMAIN sender}

\* ceil(a / b)
CeilDiv(a, b) == (a + b - 1) \div b

\* the larger of two numbers
Larger(a, b) == IF a > b THEN a ELSE b

\* the number of pieces of CHUNK_SIZE characters into which str is cut
Pieces(str) == Cardinality({i \in 0..Len(str) : i * CHUNK_SIZE < Length(str)})

\* C16: for every artifact that is chunked, totalChunks is the larger of the number of
\* request pieces and the number of response pieces, which is
\* ceil(max(len(requestRaw), len(responseRaw)) / CHUNK_SIZE); it is at least 1 and
\* every chunk call of the artifact carries it.
C16_TotalChunks ==
  /\ \A s \in DOMAIN sender :
       sender[s].sessionId # "" =>
         /\ sender[s].totalChunks = Larger(Pieces(sender[s].requestRaw), Pieces(sender[s].responseRaw))
         /\ Pieces(sender[s].requestRaw) = Len(chunkString(sender[s].requestRaw, CHUNK_SIZE))
         /\ Pieces(sender[s].responseRaw) = Len(chunkString(sender[s].responseRaw, CHUNK_SIZE))
         /\ sender[s].totalChunks =
              CeilDiv(Larger(Length(sender[s].requestRaw), Length(sender[s].responseRaw)), CHUNK_SIZE)
         /\ sender[s].totalChunks >= 1
  /\ \A c \in IssuedChunkCalls :
       /\ c.totalChunks = sender[c.caller].totalChunks
       /\ c.totalChunks =
            CeilDiv(Larger(Length(sender[c.caller].requestRaw), Length(sender[c.caller].responseRaw)), CHUNK_SIZE)

\* the second call of an artifact whose response is one and a half chunks long and
\* longer than its request carries totalChunks 2
C16_Witness ==
  \E c \in IssuedChunkCalls :
    /\ c.chunkIndex = 1 /\ c.totalChunks = 2
    /\ 2 * Length(sender[c.caller].responseRaw) = 3 * CHUNK_SIZE
    /\ Length(sender[c.caller].requestRaw) < Length(sender[c.caller].responseRaw)

\* the i-th slice of CHUNK_SIZE characters of str
Slice(str, i) ==
  SubSeq(str, i * (CHUNK_SIZE \div BlockChars) + 1, Min((i + 1) * (CHUNK_SIZE \div BlockChars), Len(str)))

\* the piece of str that the chunk call with index i has to carry
ExpectedPiece(str, i) == IF i * CHUNK_SIZE < Length(str) THEN Some(Slice(str, i)) ELSE Null

\* C17: in the chunk call with index i the URL is present iff i = 0; the request piece
\* is present iff i is below the number of request pieces and is then the i-th slice
\* of CHUNK_SIZE characters of requestRaw; the response piece likewise; a piece that
\* is present is not empty and at most CHUNK_SIZE long.
C17_ChunkCallContents ==
  \A c \in IssuedChunkCalls :
    LET st == sender[c.caller]
    IN /\ c.requestUrl = (IF c.chunkIndex = 0 THEN Some(st.requestUrl) ELSE Null)
       /\ c.requestRawChunk = ExpectedPiece(st.requestRaw, c.chunkIndex)
       /\ c.responseRawChunk = ExpectedPiece(st.responseRaw, c.chunkIndex)
       /\ \A piece \in {c.requestRawChunk, c.responseRawChunk} \ {Null} :
            Length(piece[1]) > 0 /\ Length(piece[1]) <= CHUNK_SIZE

\* a call with index 1 carries no URL, no request piece, and a last response piece
\* shorter than CHUNK_SIZE
C17_Witness ==
  \E c \in IssuedChunkCalls :
    /\ c.chunkIndex = 1
    /\ c.requestUrl = Null /\ c.requestRawChunk = Null
    /\ c.responseRawChunk # Null
    /\ Length(c.responseRawChunk[1]) < CHUNK_SIZE
    /\ sender[c.caller].requestRaw # <<>>

\* p is a prefix of q
IsPrefix(p, q) == Len(p) <= Len(q) /\ SubSeq(q, 1, Len(p)) = p

\* the step destroys the expired session k and begins a new one under the same sessionId
Replaced(k) ==
  /\ ChunkStarts
  /\ k \in Expired(chunkSessions, now)
  /\ chunkSessions'[k].receivedChunks = 1 /\ chunkSessions'[k].timestamp = now

\* a session that the step keeps has its buffers extended or left as they are
BuffersGrow ==
  \A k \in DOMAIN chunkSessions \cap DOMAIN chunkSessions' :
    \/ Replaced(k)
    \/ /\ IsPrefix(chunkSessions[k].requestRaw, chunkSessions'[k].requestRaw)
       /\ IsPrefix(chunkSessions[k].responseRaw, chunkSessions'[k].responseRaw)

\* C18: for a session that is in the table in two successive states, the request buffer
\* and the response buffer of the earlier state are prefixes of those of the later
\* state; a buffer disappears only with the whole session.
C18_BuffersOnlyGrow == [][BuffersGrow]_vars

\* both chunks of a transfer have been appended: the response buffer has grown twice
C18_Witness ==
  \E k \in DOMAIN chunkSessions :
    /\ chunkSessions[k].receivedChunks = 2
    /\ chunkSessions[k].requestRaw = RequestText(1)
    /\ chunkSessions[k].responseRaw = ResponseText(3)

\* the step is part of a sendToJxscoutChunk call: its run up to the await or its return
ChunkCallRuns == ChunkStarts \/ \E c \in calls : Returns(c)

\* an entry leaves the table through the sweep at the start of a call, being
\* expired, or through the return of a completing call for its sessionId
RemovedInsideChunkCall ==
  \A k \in DOMAIN chunkSessions \ DOMAIN chunkSessions' :
    \/ ChunkStarts /\ k \in Expired(chunkSessions, now)
    \/ \E c \in calls : Returns(c) /\ c.sessionId = k

\* C19: the session table changes only inside a sendToJxscoutChunk call, and an entry
\* is removed only by the sweep at the start of such a call or on completion: the
\* passing of time, direct sendToJxscout calls, fetchUrl, getSettings and saveSettings
\* leave the table as it is, so an expired session stays until the next chunk call.
C19_TableChangesOnlyInChunkCalls ==
  [][(chunkSessions' # chunkSessions => ChunkCallRuns) /\ RemovedInsideChunkCall]_vars

\* saveSettings was called when a session had already expired, it has returned,
\* and the expired session is still in the table
C19_Witness ==
  \E k \in DOMAIN chunkSessions, c \in calls :
    /\ k \in Expired(chunkSessions, now)
    /\ c.op = "saveSettings" /\ c.pc = "returned"
    /\ c.start - chunkSessions[k].timestamp > SESSION_TIMEOUT
    /\ uiCalls = MaxUiCalls

\* the idle time of the session k: now - last activity
IdleTime(k) == now - chunkSessions[k].timestamp

\* a session idle for at most SESSION_TIMEOUT leaves the table in no step other than
\* the return of a completing call for its sessionId
KeptWhileFresh ==
  \A k \in DOMAIN chunkSessions :
    IdleTime(k) <= SESSION_TIMEOUT =>
      \/ k \in DOMAIN chunkSessions'
      \/ \E c \in calls : Returns(c) /\ c.sessionId = k

\* the next chunk of a session that has been idle for at most SESSION_TIMEOUT finds
\* the session and is appended to it
FreshChunkAccepted ==
  \A c \in calls, d \in calls' :
    (/\ Ran(c, d)
     /\ c.sessionId \in DOMAIN chunkSessions
     /\ chunkSessions[c.sessionId].receivedChunks = c.chunkIndex
     /\ IdleTime(c.sessionId) <= SESSION_TIMEOUT) =>
      /\ d.pc = "forward" \/ d.result = Some(ok([complete |-> FALSE]))
      /\ c.sessionId \in DOMAIN chunkSessions'
      /\ chunkSessions'[c.sessionId].receivedChunks = c.chunkIndex + 1

\* C20: the sweep never removes a session whose idle time is at most SESSION_TIMEOUT,
\* the value SESSION_TIMEOUT included; a transfer whose successive chunks arrive at
\* most SESSION_TIMEOUT apart is therefore not evicted before it completes, whatever
\* calls of other sessions run in between.
C20_FreshSessionsNotEvicted == [][KeptWhileFresh /\ FreshChunkAccepted]_vars

\* a call of another session ran when a session had been idle for exactly
\* SESSION_TIMEOUT, and that session is still in the table
C20_Witness ==
  \E c \in calls, k \in DOMAIN chunkSessions :
    /\ IsChunk(c) /\ c.pc \in {"forward", "returned"}
    /\ c.sessionId # k
    /\ c.start - chunkSessions[k].timestamp = SESSION_TIMEOUT

\* the saveSettings calls that have returned a success and whose caller has not yet
\* made another call: no saveSettings has returned since
SavedCalls == {c \in calls : c.op = "saveSettings" /\ c.pc = "returned" /\ c.result[1].success}

\* the step in which the saveSettings call c returns, leaving the call d
SaveReturns(c, d) ==
  /\ c \in calls /\ c.op = "saveSettings" /\ c.pc = "await"
  /\ d \in calls' \ calls /\ d.op = "saveSettings" /\ d.caller = c.caller /\ d.pc = "returned"

\* a successful saveSettings caches its argument; a failed one returns a failure and
\* leaves the cache as it was
SaveSetsCache ==
  \A c \in calls, d \in calls' :
    SaveReturns(c, d) =>
      IF d.result[1].success
      THEN c.io = Some(TRUE) /\ d.result[1].data = c.arg[1] /\ globalSettings' = c.arg
      ELSE c.io = Some(FALSE) /\ globalSettings' = globalSettings

\* the step in which sendToJxscout is entered for the call d
ForwardStarts(d) ==
  /\ d \in calls' \ calls /\ d.pc = "forward"
  /\ \A c \in calls : c.caller = d.caller => c.pc # "forward"

\* a forward that starts after saveSettings(s) has returned goes to the host and the port of s
ForwardsUseSaved ==
  \A c \in SavedCalls, d \in calls' :
    ForwardStarts(d) => d.inner = "send" /\ d.target = Some(Target(c.arg[1]))

\* after saveSettings(s) has returned the cache holds s
CacheHoldsSaved == \A c \in SavedCalls : globalSettings = c.arg

\* C21: after saveSettings(s) has returned a success, and until the next successful
\* saveSettings, the cached settings are s and the forwards that start use the host
\* and the port of s, also when a lazy settings load was in progress while
\* saveSettings ran; a saveSettings that fails leaves the cached settings as they were.
C21_SavedSettingsCached == []CacheHoldsSaved /\ [][SaveSetsCache /\ ForwardsUseSaved]_vars

\* the sendToJxscoutChunk calls in progress: started and suspended in `await sendToJxscout`
ChunkCallsInProgress == {c \in calls : IsChunk(c) /\ c.pc = "forward"}

\* all the chunks of the session have been received (line 183)
Complete(session) == session.receivedChunks >= session.totalChunks

\* C22: a complete session (receivedChunks >= totalChunks) is in the table only while
\* a sendToJxscoutChunk call for its sessionId is in progress; in every state in which
\* no sendToJxscoutChunk call is in progress the table holds no complete session.
C22_NoCompleteSessionAtRest ==
  /\ ChunkCallsInProgress = {} => \A k \in DOMAIN chunkSessions : ~Complete(chunkSessions[k])
  /\ \A k \in DOMAIN chunkSessions :
       Complete(chunkSessions[k]) => \E c \in ChunkCallsInProgress : c.sessionId = k

\* the completing call of a transfer has returned after its forward failed, no chunk
\* call is in progress, and the table holds the unfinished session of another transfer
C22_Witness ==
  /\ ChunkCallsInProgress = {}
  /\ \E c \in calls :
       /\ IsChunk(c) /\ c.pc = "returned" /\ c.fwd # Null /\ ~c.result[1].success
       /\ c.sessionId \notin DOMAIN chunkSessions
  /\ \E k \in DOMAIN chunkSessions : chunkSessions[k].receivedChunks >= 1

\* the value of an optional argument, or `none` when it is null
OrElse(o, none) == IF o = Null THEN none ELSE o[1]

\* what a call with the arguments a does to the entry of its sessionId: it creates the
\* entry when there is none after the sweep and the index is 0, seeded from the chunk;
\* it never changes the url and the totalChunks of an entry that is there
SeededOnce ==
  LET swept == Swept
  IN \A a \in ChunkArgs :
       LET r == SyncOf(a)
           k == a.sessionId
       IN IF k \in DOMAIN swept
          THEN /\ k \in DOMAIN r.table
               /\ r.table[k].requestUrl = chunkSessions[k].requestUrl
               /\ r.table[k].totalChunks = chunkSessions[k].totalChunks
          ELSE IF a.chunkIndex = 0
               THEN /\ k \in DOMAIN r.table
                    /\ r.table[k] = [requestUrl |-> OrElse(a.requestUrl, ""),
                                     requestRaw |-> OrElse(a.requestRawChunk, <<>>),
                                     responseRaw |-> OrElse(a.responseRawChunk, <<>>),
                                     receivedChunks |-> 1,
                                     totalChunks |-> a.totalChunks,
                                     timestamp |-> now]
               ELSE k \notin DOMAIN r.table

\* no step changes the url or the totalChunks of a session that it keeps
UrlAndTotalFixed ==
  \A k \in DOMAIN chunkSessions \cap DOMAIN chunkSessions' :
    \/ Replaced(k)
    \/ /\ chunkSessions'[k].requestUrl = chunkSessions[k].requestUrl
       /\ chunkSessions'[k].totalChunks = chunkSessions[k].totalChunks

\* C23: a session is created only by a chunk with index 0 for a sessionId that is not
\* in the table, with the URL of the chunk (the empty string when absent), the
\* totalChunks of the chunk and nothing but the chunk in its buffers; afterwards no
\* chunk changes its url or its totalChunks, whatever URL and totalChunks it carries.
C23_SessionSeededOnce == []SeededOnce /\ [][UrlAndTotalFixed]_vars

\* the chunks that would be accepted now as the next chunk of the session k, which the
\* sweep of their call keeps, although they carry another URL and another totalChunks
LaterChunksThatDiffer(k) ==
  {a \in EnvArgs : /\ a.sessionId = k
                   /\ k \in DOMAIN Swept
                   /\ a.chunkIndex = chunkSessions[k].receivedChunks
                   /\ a.requestUrl # Null /\ a.requestUrl[1] # chunkSessions[k].requestUrl
                   /\ a.totalChunks # chunkSessions[k].totalChunks}

\* the session of a sender has received its second chunk from another caller and has
\* the url and the totalChunks of the sender's first chunk; a third chunk with another
\* URL and another totalChunks is accepted and leaves them as they are
C23_Witness ==
  \E s \in Senders :
    LET k == sender[s].sessionId
    IN /\ sender[s].issued = <<0>>
       /\ k \in DOMAIN chunkSessions
       /\ chunkSessions[k].receivedChunks = 2
       /\ chunkSessions[k].requestUrl = sender[s].requestUrl
       /\ chunkSessions[k].totalChunks = sender[s].totalChunks
       /\ \E a \in LaterChunksThatDiffer(k) :
            /\ SyncOf(a).table[k].receivedChunks = 3
            /\ SyncOf(a).table[k].requestUrl = sender[s].requestUrl

\* the chunk a is late: its index is not 0 and the session of its sessionId has been
\* idle for more than SESSION_TIMEOUT
Late(a) ==
  /\ a.chunkIndex > 0
  /\ a.sessionId \in DOMAIN chunkSessions
  /\ IdleTime(a.sessionId) > SESSION_TIMEOUT

\* a late chunk is answered "Session not found": nothing is appended or forwarded and
\* the call leaves no entry for the sessionId
LateChunkRejected ==
  \A a \in ChunkArgs :
    Late(a) =>
      LET r == SyncOf(a)
      IN /\ r.pc = "returned"
         /\ r.fwd = Null
         /\ r.result = Some(error(NotFoundMsg))
         /\ a.sessionId \notin DOMAIN r.table

\* the late chunk call of a sender evicts the session and starts no forward, and the
\* sender that takes its result ends the send in failure with no further call
LateChunkFailsSend ==
  /\ \A c \in calls, d \in calls' :
       (Ran(c, d) /\ c.caller \in Senders /\ Late(c)) =>
         /\ d.result = Some(error(NotFoundMsg))
         /\ c.sessionId \notin DOMAIN chunkSessions'
         /\ \A f \in calls' \ calls : f.pc # "forward"
  /\ \A s \in Senders, c \in calls \ calls' :
       (c.caller = s /\ IsChunk(c) /\ c.pc = "returned" /\ c.result = Some(error(NotFoundMsg))) =>
         /\ sender'[s].pc = "done"
         /\ sender'[s].outcome = Some(Outcome("failure", NotFoundMsg))
         /\ sender'[s].issued = sender[s].issued
         /\ OutstandingNext(s) = {}

\* C24: a chunk with index k > 0 that arrives more than SESSION_TIMEOUT after the last
\* accepted chunk of its session is not appended: the sweep at the start of the call
\* evicts the session, the call returns "Session not found", and the sender's send
\* ends in failure with no forward of the partial data.
C24_LateChunkNotAppended == []LateChunkRejected /\ [][LateChunkFailsSend]_vars

\* a send has ended in failure on "Session not found" for its second chunk, after its
\* session was swept
C24_Witness ==
  \E s \in Senders :
    /\ sender[s].pc = "done"
    /\ sender[s].issued = <<0, 1>>
    /\ sender[s].outcome = Some(Outcome("failure", NotFoundMsg))
    /\ sender[s].sessionId \in evicted
    /\ sender[s].sessionId \notin DOMAIN chunkSessions
    /\ now > SESSION_TIMEOUT

\* the send of s is chunked: it has chosen a sessionId
Chunked(s) == sender[s].sessionId # ""

\* at most totalChunks chunk calls and no direct call, or one direct call and no chunk call
CallsBounded ==
  \A s \in Senders :
    /\ Len(sender[s].issued) <= sender[s].totalChunks
    /\ sender[s].direct <= 1
    /\ sender[s].direct = 1 => sender[s].issued = <<>>
    /\ (sender[s].pc # "idle" /\ ~Chunked(s)) => sender[s].direct = 1
    /\ Cardinality(Outstanding(s)) <= 1

\* a send that has ended has a result, a success or a failure; the one exception is
\* the rejection of the direct call, which sendToJxscoutWithChunking lets through
EndsWithResult ==
  \A s \in Senders :
    sender[s].pc = "done" =>
      /\ sender[s].outcome # Null
      /\ Outstanding(s) = {}
      /\ \/ sender[s].outcome[1].kind \in {"success", "failure"}
         \/ sender[s].outcome[1].kind = "thrown" /\ sender[s].kind = "helper" /\ sender[s].direct = 1

\* the messages of the failures that come from the forward or from the RPC layer
ForwardOrRpcFailures == {SendFailedMsg, ThrownMsg, RpcErrorMsg}

\* with nothing evicted, a chunked send ends in success after exactly totalChunks
\* calls, or in a failure of the forward or of the RPC layer
SuccessOnLastChunk ==
  \A s \in Senders :
    (sender[s].pc = "done" /\ Chunked(s) /\ sender[s].sessionId \notin evicted) =>
      IF sender[s].outcome[1].kind = "success"
      THEN sender[s].issued = [j \in 1..sender[s].totalChunks |-> j - 1]
      ELSE sender[s].outcome[1].error \in ForwardOrRpcFailures

\* a result is given once: a send that has ended does nothing more; and the step that
\* takes the result of a call whose forward succeeded ends the send in success, that
\* call being the one with index totalChunks - 1
ResultGivenOnce ==
  \A s \in Senders :
    /\ sender[s].pc = "done" => sender'[s] = sender[s] /\ OutstandingNext(s) = {}
    /\ \A c \in calls \ calls' :
         (c.caller = s /\ IsChunk(c) /\ c.pc = "returned" /\ c.fwdResult = Some(ok(Undefined))) =>
           /\ c.chunkIndex = sender[s].totalChunks - 1
           /\ sender'[s].pc = "done"
           /\ sender'[s].outcome = Some(Outcome("success", NoMsg))

\* the send of s ends
Terminates(s) == <>(sender[s].pc = "done")

\* C25: the send of one artifact terminates when the calls it awaits end; it issues at
\* most totalChunks chunk calls, or exactly one direct call, and ends with exactly one
\* result; when only its own chunks reach the session and nothing is evicted, it ends
\* in success on the call with index totalChunks - 1 provided the forward succeeds.
C25_SendTerminates ==
  /\ [](CallsBounded /\ EndsWithResult /\ SuccessOnLastChunk)
  /\ [][ResultGivenOnce]_vars
  /\ \A s \in Senders : Terminates(s)

\* a chunked send has ended in success after two calls, with nothing evicted, and
\* nothing of it is left in the backend
C25_Witness ==
  \E s \in Senders :
    /\ sender[s].pc = "done"
    /\ sender[s].totalChunks = 2
    /\ sender[s].issued = <<0, 1>>
    /\ sender[s].outcome = Some(Outcome("success", NoMsg))
    /\ evicted = {}
    /\ calls = {}
    /\ DOMAIN chunkSessions = {}

\* the positions 1..n in increasing order
Positions(n) == [j \in 1..n |-> j]

\* the number of URLs that fetchAndSendUrls has dealt with completely
Processed ==
  IF fetcher.pc \in {"fetch", "send"} THEN fetcher.idx - 1
  ELSE IF fetcher.pc = "done" THEN Len(fetcher.urls)
  ELSE 0

\* the URLs are taken one at a time in list order, each one fetched once and sent at
\* most once, and the counts add up to the number of URLs dealt with
FetchedInOrder ==
  /\ fetcher.fetched = Positions(Len(fetcher.fetched))
  /\ Len(fetcher.fetched) = (IF fetcher.pc \in {"fetch", "send"} THEN fetcher.idx ELSE Processed)
  /\ Len(fetcher.fetched) <= Len(fetcher.urls)
  /\ \A j \in 1..Len(fetcher.sent) :
       /\ fetcher.sent[j] \in 1..Len(fetcher.fetched)
       /\ j > 1 => fetcher.sent[j - 1] < fetcher.sent[j]
  /\ fetcher.successCount + fetcher.errorCount = Processed
  /\ fetcher.successCount <= Len(fetcher.sent)
  /\ \A f \in FetchCallers :
       /\ Cardinality(Outstanding(f)) <= 1
       /\ \A c \in Outstanding(f) :
            /\ fetcher.pc = "fetch"
            /\ c.op = "fetchUrl"
            /\ c.arg = Some(fetcher.urls[fetcher.idx])
  /\ \A s \in Senders :
       /\ Outstanding(s) # {} => fetcher.pc = "send"
       /\ (fetcher.pc = "send" /\ sender[s].pc # "idle") =>
            sender[s].requestUrl = fetcher.urls[fetcher.idx]
  /\ fetcher.pc = "done" =>
       /\ fetcher.fetched = Positions(Len(fetcher.urls))
       /\ fetcher.result = Some([successCount |-> fetcher.successCount, errorCount |-> fetcher.errorCount])
       /\ fetcher.result[1].successCount + fetcher.result[1].errorCount = Len(fetcher.urls)
       /\ calls = {}

\* the send of a URL starts in the step that takes a successful result of its fetch,
\* with the url and the pair that was fetched
SentAfterFetch ==
  fetcher'.sent # fetcher.sent =>
    \E c \in calls \ calls' :
      /\ c.caller \in FetchCallers /\ c.pc = "returned" /\ c.result[1].success
      /\ c.arg = Some(fetcher.urls[fetcher.idx])
      /\ fetcher'.sent = Append(fetcher.sent, fetcher.idx)
      /\ fetcher'.idx = fetcher.idx
      /\ \A s \in Senders :
           /\ sender'[s].requestUrl = c.arg[1]
           /\ sender'[s].requestRaw = c.result[1].data.requestRaw
           /\ sender'[s].responseRaw = c.result[1].data.responseRaw
           /\ sender'[s].pc = "await"

\* when the loop leaves a URL, one of the two counts goes up by one: successCount when
\* the URL was fetched and its send ended in success, errorCount in every other case
CountsFollowOutcomes ==
  (fetcher.pc \in {"fetch", "send"} /\ fetcher'.idx # fetcher.idx) =>
    LET sendSucceeded ==
          /\ fetcher.pc = "send"
          /\ fetcher.sent # <<>> /\ fetcher.sent[Len(fetcher.sent)] = fetcher.idx
          /\ \A s \in Senders : sender[s].pc = "done" /\ sender[s].outcome = Some(Outcome("success", NoMsg))
    IN /\ fetcher'.idx = fetcher.idx + 1
       /\ fetcher'.pc \in {"fetch", "done"}
       /\ fetcher'.pc = "done" <=> fetcher.idx = Len(fetcher.urls)
       /\ fetcher'.successCount = fetcher.successCount + (IF sendSucceeded THEN 1 ELSE 0)
       /\ fetcher'.errorCount = fetcher.errorCount + (IF sendSucceeded THEN 0 ELSE 1)

\* C26: fetchAndSendUrls takes the URLs one at a time in list order, fetches each one
\* exactly once and sends it at most once, only after its fetch succeeded; it goes on
\* with the next URL after a failed fetch, a failed send or a thrown error; the counts
\* it returns add up to the number of URLs, successCount being the number of URLs
\* whose fetch and send both succeeded.
C26_FetchAndSendCounts == []FetchedInOrder /\ [][SentAfterFetch /\ CountsFollowOutcomes]_vars

\* of two URLs the first could not be fetched and the second, a large resource, was
\* fetched and sent in chunks: the counts returned are 1 and 1
C26_Witness ==
  /\ fetcher.pc = "done"
  /\ fetcher.urls = <<"", "u2">>
  /\ fetcher.fetched = <<1, 2>>
  /\ fetcher.sent = <<2>>
  /\ fetcher.result = Some([successCount |-> 1, errorCount |-> 1])
  /\ \A s \in Senders : sender[s].issued = <<0, 1>>

\* the invocations of the intercept handler
HandlerCalls == {c \in calls : c.op = "onInterceptResponse"}

\* the step in which the handler invocation d has read the settings and has decided
Decides(d) ==
  /\ d \in calls' \ calls /\ d.op = "onInterceptResponse"
  /\ d.pc \in {"returned", "forward", "thrown"}
  /\ \A c \in HandlerCalls : c.pc # "forward"

\* the handler forwards the intercepted pair, once, exactly when the settings it uses
\* have enabled = true and do not filter out the request
ForwardsWhenEnabledAndInScope ==
  \A d \in calls' :
    Decides(d) =>
      IF globalSettings' = Null
      THEN d.pc = "thrown" /\ d.fwd = Null /\ d.target = Null
      ELSE LET settings == globalSettings'[1]
               inScope == d.arg[1]
               pair == Artifact(d.requestUrl[1], d.requestRawChunk[1], d.responseRawChunk[1])
           IN /\ pair = InterceptedPair
              /\ IF ~Enabled(settings) \/ (FilterInScope(settings) /\ ~inScope)
                 THEN d.pc = "returned" /\ d.fwd = Null /\ d.target = Null
                 ELSE /\ d.pc = "forward" /\ d.inner = "send"
                      /\ d.fwd = Some(pair)
                      /\ d.target = Some([host |-> Host(settings), port |-> Port(settings)])

\* an invocation that has ended without a forward stays without one, and one that
\* forwards has a single sendToJxscout invocation, which ends the handler when it ends
NothingAfterDecision ==
  \A c \in HandlerCalls, d \in calls' \ calls :
    (d.op = "onInterceptResponse" /\ c.pc = "forward") =>
      /\ d.pc \in {"returned", "thrown"}
      /\ d.fwd = c.fwd /\ d.target = c.target

\* no step of the handler touches the session table
HandlerLeavesTable ==
  {c \in calls' : c.op = "onInterceptResponse"} # HandlerCalls => chunkSessions' = chunkSessions

\* C27: the intercept handler forwards nothing when the cached settings have
\* enabled = false, and nothing when filterInScope = true and the request is out of
\* scope; otherwise it issues exactly one direct sendToJxscout call for the intercepted
\* pair; in no case does it create, change or remove an entry of the session table.
C27_InterceptHandler ==
  [][ForwardsWhenEnabledAndInScope /\ NothingAfterDecision /\ HandlerLeavesTable]_vars

\* with filterInScope = true cached, a response to a request out of scope has passed
\* and the handler has ended without a forward, while a session was in the table
C27_Witness ==
  /\ globalSettings = Some(DEFAULT_SETTINGS)
  /\ Enabled(DEFAULT_SETTINGS) /\ FilterInScope(DEFAULT_SETTINGS)
  /\ DOMAIN chunkSessions # {}
  /\ \E c \in HandlerCalls : c.pc = "returned" /\ c.arg = Some(FALSE) /\ c.fwd = Null

====
